---- MODULE Spec2Model ----
(***************************************************************************)
(* canvas-report: the grade analytics and triage engine of report.go.      *)
(*                                                                         *)
(* Time is counted in ticks, TicksPerDay ticks to a local calendar day;    *)
(* day d is the ticks d*Day .. d*Day + Day - 1 and day 0 is a Sunday, so   *)
(* the weekday of a tick follows Go's time.Weekday numbering (Sunday = 0). *)
(* All timestamps are local, as in the program (time.Now() and             *)
(* DueAt.Local()).  A nil pointer is the empty sequence None, a non-nil    *)
(* pointer to v is Some(v).  SubmittedAt and GradedAt are kept as the one  *)
(* thing the program reads of them: whether they are set.                  *)
(* Points (scores and points possible) are counted in units of 1/PointUnit *)
(* of a point, so that a fraction of a point can be told from a whole one.  *)
(***************************************************************************)
EXTENDS Integers, Sequences, FiniteSets, TLC

VARIABLES
    clock,        \* the wall clock that time.Now() reads
    runStart,     \* the clock when the report run began
    showAll,      \* Report.showAll (--all)
    pc,           \* position of the run in fetchStudentData
    assignments,  \* the merged []EnrichedAssignment of the student
    now,          \* the `now` local of each classifier, once it has run
    missing,      \* studentData.missing
    upcoming,     \* studentData.upcoming
    weekAhead,    \* studentData.weekAhead
    upcomingPending,  \* studentData.upcomingPending (None until fetchStudentData returns)
    weekAheadPending, \* studentData.weekAheadPending
    impactIn,     \* the arguments of a call of calculateAssignmentImpacts
    impacts,      \* the map that call returns
    client,       \* per course, what the Canvas client answers (None: an error)
    taskPc,       \* per course, the position of its goroutine in fetchAllAssignments
    courseResult, \* per course, courseAssignments and err of its goroutine
    errors,       \* the errors list of fetchAllAssignments
    completed,    \* the progress counter of fetchAllAssignments
    mu,           \* the course whose goroutine holds the mutex (0: unlocked)
    categories,   \* the []CategoryGrade a call of buildCategoryGrades returns
    results,      \* the results list of fetchAllGrades
    grouped,      \* the []periodGrades fetchAllGrades returns
    observed,     \* what the Canvas client answers for Observees and, per student, Courses
    genPc,        \* position of main and Report.Generate
    allStudents,  \* the allStudents list of Generate
    printIdx,     \* the index of the printing loop of Generate
    genErr,       \* the error Generate returns (None: nil)
    stdout,       \* what has been printed on standard output
    stderr        \* what has been printed on standard error

classifierVars == <<showAll, assignments, now, missing, upcoming, weekAhead>>
impactVars == <<impactIn, impacts>>
studentVars == <<upcomingPending, weekAheadPending>>
courseVars == <<client, taskPc, courseResult, errors, completed, mu>>
gradeVars == <<categories, results, grouped>>
reportVars == <<observed, genPc, allStudents, printIdx, genErr, stdout>>
vars == <<clock, runStart, pc, classifierVars, studentVars, impactVars, courseVars, gradeVars,
          reportVars, stderr>>

-----------------------------------------------------------------------------
(* Bounds of the model *)

TicksPerDay == 2
MaxElapsed == 1
MaxAssignments == 2
NumCourses == 2
MaxFailing == 1
NumStudents == 2
PointUnit == 2

-----------------------------------------------------------------------------
(* Optional values *)

None == <<>>
Some(v) == <<v>>
IsNil(o) == o = <<>>
Val(o) == o[1]

-----------------------------------------------------------------------------
(* Points *)

(* p whole points *)
Points(p) == p * PointUnit

(* int(x) of a float64 number of points: the fraction is dropped *)
ToInt(x) == IF x >= 0 THEN x \div PointUnit ELSE -((-x) \div PointUnit)

-----------------------------------------------------------------------------
(* Calendar arithmetic *)

Day == TicksPerDay
FirstDay == 5 * 7

Sunday == 0
Thursday == 4
Friday == 5
Saturday == 6

oneMonthAgo == 30 * Day

Weekday(t) == (t \div Day) % 7
AddDate(t, days) == t + days * Day
truncateToDay(t) == (t \div Day) * Day

(* nextSchoolDay without the weekend cases *)
nextCalendarDay(date) == AddDate(date, 1)

(* nextSchoolDay going from Friday and Saturday to Sunday *)
nextSchoolDayOnSunday(date) ==
    CASE Weekday(date) = Friday -> AddDate(date, 2)
      [] Weekday(date) = Saturday -> AddDate(date, 1)
      [] OTHER -> AddDate(date, 1)

nextSchoolDay(date) ==
    CASE Weekday(date) = Friday -> AddDate(date, 3)
      [] Weekday(date) = Saturday -> AddDate(date, 2)
      [] OTHER -> AddDate(date, 1)

(* endOfSchoolWeek without the Sunday, Saturday and Friday cases *)
endOfSchoolWeekNoCases(date) == AddDate(date, 5 - Weekday(date))

endOfSchoolWeek(date) ==
    CASE Weekday(date) = Sunday -> AddDate(date, 5)
      [] Weekday(date) = Saturday -> AddDate(date, 6)
      [] Weekday(date) = Friday -> AddDate(date, 7)
      [] OTHER -> AddDate(date, 5 - Weekday(date))

-----------------------------------------------------------------------------
(* Submission predicates *)

isCompleted(sub) ==
    IF IsNil(sub) THEN FALSE
    ELSE Val(sub).SubmittedAt \/ Val(sub).GradedAt \/ Val(sub).Excused

(* awaitingGrade reading the flag the wrong way round *)
awaitingGradeInverted(sub) ==
    IF IsNil(sub) THEN FALSE
    ELSE IF ~Val(sub).SubmittedAt THEN FALSE
    ELSE /\ ~IsNil(Val(sub).GradeMatchesCurrentSubmission)
         /\ Val(Val(sub).GradeMatchesCurrentSubmission)

awaitingGrade(sub) ==
    IF IsNil(sub) THEN FALSE
    ELSE IF ~Val(sub).SubmittedAt THEN FALSE
    ELSE /\ ~IsNil(Val(sub).GradeMatchesCurrentSubmission)
         /\ ~Val(Val(sub).GradeMatchesCurrentSubmission)

GradedZero(sub) ==
    /\ ~IsNil(sub)
    /\ ~IsNil(Val(sub).Score)
    /\ Val(Val(sub).Score) = 0
    /\ Val(sub).GradedAt

(* determineStatus taking every assignment for missing *)
determineStatusAlwaysMissing(a) == <<"Missing">>

determineStatus(a) ==
    IF GradedZero(a.Submission)
    THEN IF ~IsNil(a.PointsPossible)
         THEN <<"Graded 0/", ToInt(Val(a.PointsPossible))>>
         ELSE <<"Graded 0">>
    ELSE <<"Missing">>

(* countPending counting every entry *)
countPendingAll(list) == Len(list)

RECURSIVE countPending(_)
countPending(list) ==
    IF list = <<>> THEN 0
    ELSE countPending(Tail(list)) + (IF ~isCompleted(Head(list).Submission) THEN 1 ELSE 0)

-----------------------------------------------------------------------------
(* sort.Slice by DueAt: the result is a permutation of the slice in which no
   entry is followed by one that is due before it; sort.Slice is not stable,
   so every such permutation is a possible result. *)

RECURSIVE SortedOrders(_, _)
SortedOrders(s, left) ==
    IF left = {} THEN {<<>>}
    ELSE UNION { { <<s[i]>> \o rest : rest \in SortedOrders(s, left \ {i}) } :
                    i \in { j \in left : \A k \in left : ~(s[k].DueAt < s[j].DueAt) } }

(* the slice left in the order it came in *)
SortByDueAtNot(s) == {s}

SortByDueAt(s) == SortedOrders(s, 1..Len(s))

-----------------------------------------------------------------------------
(* Time-window classifiers *)

isMissing(sub) ==
    \/ IsNil(sub)
    \/ Val(sub).Missing
    \/ (~IsNil(Val(sub).Score) /\ Val(Val(sub).Score) = 0 /\ Val(sub).GradedAt)

(* the missing filter without the test that the due time has passed *)
MissingKeepsFuture(a, n, all) ==
    /\ ~(~all /\ a.DueAt < n - oneMonthAgo)
    /\ isMissing(a.Submission)
    /\ ~awaitingGrade(a.Submission)

(* the missing filter applying the 30-day cutoff whatever showAll is *)
MissingKeepsCutoffAlways(a, n, all) ==
    /\ ~(a.DueAt > n)
    /\ ~(a.DueAt < n - oneMonthAgo)
    /\ isMissing(a.Submission)
    /\ ~awaitingGrade(a.Submission)

MissingKeeps(a, n, all) ==
    /\ ~(a.DueAt > n)
    /\ ~(~all /\ a.DueAt < n - oneMonthAgo)
    /\ isMissing(a.Submission)
    /\ ~awaitingGrade(a.Submission)

missingAssignments(as, n, all) ==
    LET kept == SelectSeq(as, LAMBDA a : MissingKeeps(a, n, all))
    IN  SortByDueAt([i \in 1..Len(kept) |->
                        [kept[i] EXCEPT !.Status = determineStatus(kept[i])]])

(* the today/tomorrow filter leaving out completed assignments *)
UpcomingKeepsOpenOnly(a, n) ==
    LET today == truncateToDay(n)
        tomorrow == nextSchoolDay(today)
        dueDate == truncateToDay(a.DueAt)
    IN  /\ ~isCompleted(a.Submission)
        /\ IF dueDate = today THEN a.DueAt > n ELSE dueDate = tomorrow

(* the today/tomorrow filter without the test that a due time of today is
   still ahead *)
UpcomingKeepsWholeDay(a, n) ==
    LET today == truncateToDay(n)
        tomorrow == nextSchoolDay(today)
        dueDate == truncateToDay(a.DueAt)
    IN  dueDate = today \/ dueDate = tomorrow

UpcomingKeeps(a, n) ==
    LET today == truncateToDay(n)
        tomorrow == nextSchoolDay(today)
        dueDate == truncateToDay(a.DueAt)
    IN  IF dueDate = today THEN a.DueAt > n
        ELSE dueDate = tomorrow

upcomingAssignments(as, n) ==
    SortByDueAt(SelectSeq(as, LAMBDA a : UpcomingKeeps(a, n)))

WeekAheadKeeps(a, n) ==
    LET today == truncateToDay(n)
        tomorrow == nextSchoolDay(today)
        weekStart == AddDate(tomorrow, 1)
        weekEnd == endOfSchoolWeek(today)
        dueDate == truncateToDay(a.DueAt)
    IN  /\ (dueDate = weekStart \/ dueDate > weekStart)
        /\ (dueDate = weekEnd \/ dueDate < weekEnd)

weekAheadAssignments(as, n) ==
    LET today == truncateToDay(n)
        weekStart == AddDate(nextSchoolDay(today), 1)
        weekEnd == endOfSchoolWeek(today)
    IN  IF weekStart > weekEnd THEN {<<>>}
        ELSE SortByDueAt(SelectSeq(as, LAMBDA a : WeekAheadKeeps(a, n)))

-----------------------------------------------------------------------------
(* Percentages are floating-point numbers in the program; here they are exact
   rationals <<numerator, denominator>> in lowest terms with a positive
   denominator, so rounding error is left out. *)

RECURSIVE GCD(_, _)
GCD(a, b) == IF b = 0 THEN a ELSE GCD(b, a % b)

Abs(x) == IF x < 0 THEN -x ELSE x

Rat(n, d) == LET g == GCD(Abs(n), d) IN <<n \div g, d \div g>>
Zero == <<0, 1>>
RAdd(x, y) == Rat(x[1] * y[2] + y[1] * x[2], x[2] * y[2])
RSub(x, y) == Rat(x[1] * y[2] - y[1] * x[2], x[2] * y[2])
RLess(x, y) == x[1] * y[2] < y[1] * x[2]

RECURSIVE RSum(_, _)
RSum(S, f) ==
    IF S = {} THEN Zero
    ELSE LET x == CHOOSE x \in S : TRUE
         IN  RAdd(f[x], RSum(S \ {x}, f))

RECURSIVE Sum(_, _)
Sum(S, f) ==
    IF S = {} THEN 0
    ELSE LET x == CHOOSE x \in S : TRUE
         IN  f[x] + Sum(S \ {x}, f)

Max(S) == CHOOSE x \in S : \A y \in S : y <= x

(* (points / possible) * 100 *)
Percent(points, possible) == Rat(points * 100, possible)

-----------------------------------------------------------------------------
(* Category state and grade impact *)

(* isWeightedGrading taking every course for unweighted *)
isWeightedGradingNever(groups) == FALSE

isWeightedGrading(groups) ==
    /\ ~IsNil(groups)
    /\ \E g \in 1..Len(Val(groups)) : Val(groups)[g].GroupWeight > 0

(* assignmentInPeriod leaving out an assignment that has no due date *)
assignmentInPeriodDueRequired(a, period) ==
    IF IsNil(period) \/ IsNil(Val(period).StartDate) \/ IsNil(Val(period).EndDate)
    THEN TRUE
    ELSE IF IsNil(a.DueAt) THEN FALSE
    ELSE /\ ~(Val(a.DueAt) < Val(Val(period).StartDate))
         /\ ~(Val(a.DueAt) > Val(Val(period).EndDate))

assignmentInPeriod(a, period) ==
    IF IsNil(period) \/ IsNil(Val(period).StartDate) \/ IsNil(Val(period).EndDate)
    THEN TRUE
    ELSE IF IsNil(a.DueAt) THEN TRUE
    ELSE /\ ~(Val(a.DueAt) < Val(Val(period).StartDate))
         /\ ~(Val(a.DueAt) > Val(Val(period).EndDate))

(* calcOverall averaging over every category, an empty one entering with 0% *)
calcOverallCountsEmpty(allCategories, gid, catPoints, catPossible, includeCategory) ==
    LET poss(g) == IF g = gid THEN catPossible ELSE allCategories[g].possible
        pnts(g) == IF g = gid THEN catPoints ELSE allCategories[g].points
        catPct == [ g \in DOMAIN allCategories |->
                        IF poss(g) > 0 THEN Percent(pnts(g), poss(g)) ELSE Zero ]
        weightedSum == RSum(DOMAIN allCategories, [ g \in DOMAIN allCategories |->
                            Rat(catPct[g][1] * allCategories[g].weight, catPct[g][2]) ])
        weightSum == Sum(DOMAIN allCategories,
                         [ g \in DOMAIN allCategories |-> allCategories[g].weight ])
    IN  IF weightSum = 0 THEN Zero
        ELSE Rat(weightedSum[1], weightedSum[2] * weightSum)

(* the weighted average of calcOverall in calculateWeightedImpact: category
   gid enters with the given points and possible, the others as they are *)
calcOverall(allCategories, gid, catPoints, catPossible, includeCategory) ==
    LET counted == { g \in DOMAIN allCategories :
                        IF g = gid THEN includeCategory /\ catPossible > 0
                        ELSE allCategories[g].possible > 0 }
        catPct == [ g \in counted |->
                        IF g = gid THEN Percent(catPoints, catPossible)
                        ELSE Percent(allCategories[g].points, allCategories[g].possible) ]
        weightedSum == RSum(counted, [ g \in counted |->
                            Rat(catPct[g][1] * allCategories[g].weight, catPct[g][2]) ])
        weightSum == Sum(counted, [ g \in counted |-> allCategories[g].weight ])
    IN  IF weightSum = 0 THEN Zero
        ELSE Rat(weightedSum[1], weightedSum[2] * weightSum)

(* calculateWeightedImpact taking the enrollment's reported score for the
   current overall *)
calculateWeightedImpactFromReported(gid, assignmentPts, currentOverall, allCategories) ==
    LET category == allCategories[gid]
    IN  IF category.weight = 0 THEN [Gain |-> Zero, Loss |-> Zero]
        ELSE [ Gain |-> RSub(calcOverall(allCategories, gid, category.points + assignmentPts,
                                         category.possible + assignmentPts, TRUE),
                             Rat(currentOverall, 1)),
               Loss |-> RSub(Rat(currentOverall, 1),
                             calcOverall(allCategories, gid, category.points,
                                         category.possible + assignmentPts, TRUE)) ]

(* calculateWeightedImpact whose worst case leaves the category as it is *)
calculateWeightedImpactWorstAsCurrent(gid, assignmentPts, currentOverall, allCategories) ==
    LET category == allCategories[gid]
    IN  IF category.weight = 0 THEN [Gain |-> Zero, Loss |-> Zero]
        ELSE [ Gain |-> RSub(calcOverall(allCategories, gid, category.points + assignmentPts,
                                         category.possible + assignmentPts, TRUE),
                             calcOverall(allCategories, gid, category.points,
                                         category.possible, category.possible > 0)),
               Loss |-> Zero ]

calculateWeightedImpact(gid, assignmentPts, currentOverall, allCategories) ==
    LET category == allCategories[gid]
    IN  IF category.weight = 0 THEN [Gain |-> Zero, Loss |-> Zero]
        ELSE LET calcCurrentOverall ==
                     calcOverall(allCategories, gid, category.points, category.possible,
                                 category.possible > 0)
                 bestOverall ==
                     calcOverall(allCategories, gid, category.points + assignmentPts,
                                 category.possible + assignmentPts, TRUE)
                 worstOverall ==
                     calcOverall(allCategories, gid, category.points,
                                 category.possible + assignmentPts, TRUE)
             IN  [ Gain |-> RSub(bestOverall, calcCurrentOverall),
                   Loss |-> RSub(calcCurrentOverall, worstOverall) ]

FlatPercent(points, possible) ==
    IF possible > 0 THEN Percent(points, possible) ELSE Zero

(* calculateNonWeightedImpact with the operands of both differences
   exchanged *)
calculateNonWeightedImpactReversed(totalPoints, totalPossible, assignmentPts, currentOverall) ==
    LET currentPct == FlatPercent(totalPoints, totalPossible)
        bestPct == FlatPercent(totalPoints + assignmentPts, totalPossible + assignmentPts)
        worstPct == FlatPercent(totalPoints, totalPossible + assignmentPts)
    IN  [ Gain |-> RSub(currentPct, bestPct), Loss |-> RSub(worstPct, currentPct) ]

calculateNonWeightedImpact(totalPoints, totalPossible, assignmentPts, currentOverall) ==
    LET currentPct == FlatPercent(totalPoints, totalPossible)
        bestPct == FlatPercent(totalPoints + assignmentPts, totalPossible + assignmentPts)
        worstPct == FlatPercent(totalPoints, totalPossible + assignmentPts)
    IN  [ Gain |-> RSub(bestPct, currentPct), Loss |-> RSub(currentPct, worstPct) ]

(* calcOverall of calculateGradedZeroWeightedImpact *)
calcOverallGradedZero(allCategories, gid, catPoints, catPossible) ==
    IF catPossible = 0 THEN Zero
    ELSE calcOverall(allCategories, gid, catPoints, catPossible, TRUE)

(* calculateGradedZeroWeightedImpact treating the assignment as ungraded *)
calculateGradedZeroWeightedImpactAsUngraded(gid, assignmentPts, currentOverall, allCategories) ==
    calculateWeightedImpact(gid, assignmentPts, currentOverall, allCategories)

calculateGradedZeroWeightedImpact(gid, assignmentPts, currentOverall, allCategories) ==
    LET category == allCategories[gid]
    IN  IF category.weight = 0 THEN [Gain |-> Zero, Loss |-> Zero]
        ELSE LET calcCurrentOverall ==
                     calcOverallGradedZero(allCategories, gid, category.points,
                                           category.possible)
                 bestOverall ==
                     calcOverallGradedZero(allCategories, gid,
                                           category.points + assignmentPts,
                                           category.possible)
             IN  [ Gain |-> RSub(bestOverall, calcCurrentOverall), Loss |-> Zero ]

calculateGradedZeroNonWeightedImpact(totalPoints, totalPossible, assignmentPts, currentOverall) ==
    LET currentPct == FlatPercent(totalPoints, totalPossible)
        bestPct == FlatPercent(totalPoints + assignmentPts, totalPossible)
    IN  [ Gain |-> RSub(bestPct, currentPct), Loss |-> Zero ]

(* subInfoByAssignment[id]: the last submission of the list for the
   assignment, None when there is none *)
subInfoByAssignment(submissions, id) ==
    LET at == { i \in 1..Len(submissions) : submissions[i].AssignmentID = id }
    IN  IF at = {} THEN None ELSE Some(submissions[Max(at)])

(* isGraded counting every recorded score *)
isGradedAnyScore(submissions, id) ==
    LET info == subInfoByAssignment(submissions, id)
    IN  IF IsNil(info) \/ IsNil(Val(info).Score) THEN <<FALSE, 0>>
        ELSE <<TRUE, Val(Val(info).Score)>>

(* isGraded: <<whether the score counts in the totals, the score>> *)
isGraded(submissions, id) ==
    LET info == subInfoByAssignment(submissions, id)
    IN  IF IsNil(info) \/ IsNil(Val(info).Score) THEN <<FALSE, 0>>
        ELSE IF Val(info).Missing /\ Val(Val(info).Score) = 0 /\ ~Val(info).GradedAt
             THEN <<FALSE, 0>>
        ELSE <<TRUE, Val(Val(info).Score)>>

(* the members of a group that pass the two `continue` tests of both loops *)
Considered(a, period) ==
    /\ ~(IsNil(a.PointsPossible) \/ Val(a.PointsPossible) = 0)
    /\ assignmentInPeriod(a, period)

categoryStateOf(group, submissions, period) ==
    LET counted == { k \in 1..Len(group.Assignments) :
                        /\ Considered(group.Assignments[k], period)
                        /\ isGraded(submissions, group.Assignments[k].ID)[1] }
    IN  [ points |-> Sum(counted, [ k \in counted |->
                            isGraded(submissions, group.Assignments[k].ID)[2] ]),
          possible |-> Sum(counted, [ k \in counted |->
                            Val(group.Assignments[k].PointsPossible) ]),
          weight |-> group.GroupWeight ]

(* categoryStates[group.ID], a later group of the same ID replacing an
   earlier one *)
categoryStates(groups, submissions, period) ==
    [ gid \in { groups[g].ID : g \in 1..Len(groups) } |->
        categoryStateOf(groups[Max({ g \in 1..Len(groups) : groups[g].ID = gid })],
                        submissions, period) ]

(* the second loop without its skip of assignments graded above zero *)
HasImpactAlsoGraded(a, submissions, period) == Considered(a, period)

(* the members for which the second loop writes an impact *)
HasImpact(a, submissions, period) ==
    /\ Considered(a, period)
    /\ ~(isGraded(submissions, a.ID)[1] /\ isGraded(submissions, a.ID)[2] > 0)

impactOf(a, gid, states, submissions, currentOverall, weighted) ==
    LET pts == Val(a.PointsPossible)
        graded == isGraded(submissions, a.ID)
        totalPoints == IF weighted THEN 0
                       ELSE Sum(DOMAIN states, [ g \in DOMAIN states |-> states[g].points ])
        totalPossible == IF weighted THEN 0
                         ELSE Sum(DOMAIN states, [ g \in DOMAIN states |-> states[g].possible ])
        impact ==
            IF graded[1] /\ graded[2] = 0
            THEN IF weighted
                 THEN calculateGradedZeroWeightedImpact(gid, pts, currentOverall, states)
                 ELSE calculateGradedZeroNonWeightedImpact(totalPoints, totalPossible, pts,
                                                           currentOverall)
            ELSE IF weighted
                 THEN calculateWeightedImpact(gid, pts, currentOverall, states)
                 ELSE calculateNonWeightedImpact(totalPoints, totalPossible, pts,
                                                 currentOverall)
    IN  [ Gain |-> impact.Gain, Loss |-> impact.Loss, IsWeighted |-> weighted ]

MaxMembers(groups) ==
    Max({0} \cup { Len(groups[g].Assignments) : g \in 1..Len(groups) })

(* the impacts map: assignment ID -> impact; a later member of the same ID
   replaces an earlier one *)
calculateAssignmentImpacts(groups, submissions, currentOverall, weighted, period) ==
    LET states == categoryStates(groups, submissions, period)
        entries == { <<g, k>> \in (1..Len(groups)) \X (1..MaxMembers(groups)) :
                        /\ k <= Len(groups[g].Assignments)
                        /\ HasImpact(groups[g].Assignments[k], submissions, period) }
        last(id) == CHOOSE e \in entries :
                        /\ groups[e[1]].Assignments[e[2]].ID = id
                        /\ \A f \in entries :
                              groups[f[1]].Assignments[f[2]].ID = id =>
                                  (f[1] < e[1] \/ (f[1] = e[1] /\ f[2] <= e[2]))
    IN  [ id \in { groups[e[1]].Assignments[e[2]].ID : e \in entries } |->
            impactOf(groups[last(id)[1]].Assignments[last(id)[2]], groups[last(id)[1]].ID,
                     states, submissions, currentOverall, weighted) ]

-----------------------------------------------------------------------------
(* Course aggregator *)

currentGradingPeriod(periods, n) ==
    LET current == { i \in 1..Len(periods) :
                        /\ ~IsNil(periods[i].StartDate)
                        /\ ~IsNil(periods[i].EndDate)
                        /\ (n = Val(periods[i].StartDate) \/ n > Val(periods[i].StartDate))
                        /\ (n = Val(periods[i].EndDate) \/ n < Val(periods[i].EndDate)) }
    IN  IF current = {} THEN None
        ELSE Some(periods[CHOOSE i \in current : \A j \in current : i <= j])

(* a client call that failed leaves a nil slice, and so does one that
   returned no element *)
SliceOf(response) == IF IsNil(response) THEN <<>> ELSE Val(response)
NilIfEmpty(response) == IF SliceOf(response) = <<>> THEN None ELSE response

(* categoryByAssignment naming a category whatever the groups are *)
categoryByAssignmentAlways(groups, weighted, id) == "Homework"

(* categoryByAssignment[id], "" when the map has no such key *)
categoryByAssignment(groups, weighted, id) ==
    LET in == IF weighted /\ ~IsNil(groups)
              THEN { g \in 1..Len(Val(groups)) :
                        \E k \in 1..Len(Val(groups)[g].Assignments) :
                            Val(groups)[g].Assignments[k].ID = id }
              ELSE {}
    IN  IF in = {} THEN "" ELSE Val(groups)[Max(in)].Name

(* the loop over rawAssignments giving an assignment without a due date the
   zero time instead of skipping it *)
WithDueDateOrZero(rawAssignments) ==
    [ i \in 1..Len(rawAssignments) |->
        IF IsNil(rawAssignments[i].DueAt)
        THEN [rawAssignments[i] EXCEPT !.DueAt = Some(0)]
        ELSE rawAssignments[i] ]

(* the assignments the loop over rawAssignments does not skip *)
WithDueDate(rawAssignments) ==
    SelectSeq(rawAssignments, LAMBDA a : ~IsNil(a.DueAt))

(* fetchCourseAssignments: [result, err], with r the client's answers for
   the course and n the clock when the grading period is looked up *)
fetchCourseAssignments(course, r, n) ==
    IF IsNil(r.Assignments)
    THEN [result |-> <<>>, err |-> Some("fetching assignments")]
    ELSE IF IsNil(r.Submissions)
    THEN [result |-> <<>>, err |-> Some("fetching submissions")]
    ELSE
    LET rawAssignments == Val(r.Assignments)
        rawSubmissions == Val(r.Submissions)
        groups == NilIfEmpty(r.AssignmentGroups)
        weighted == isWeightedGrading(groups)
        currentPeriod ==
            IF ~IsNil(groups)
            THEN currentGradingPeriod(SliceOf(r.GradingPeriods), n)
            ELSE None
        enrollments == SliceOf(r.Enrollments)
        currentOverall ==
            IF /\ ~IsNil(currentPeriod)
               /\ Len(enrollments) > 0
               /\ ~IsNil(enrollments[1].CurrentScore)
            THEN Val(enrollments[1].CurrentScore)
            ELSE 0
        impactMap ==
            IF ~IsNil(groups)
            THEN calculateAssignmentImpacts(Val(groups), rawSubmissions, currentOverall,
                                            weighted, currentPeriod)
            ELSE <<>>
        courseName == IF course.Name = "" THEN "Unknown Course" ELSE course.Name
        dated == WithDueDate(rawAssignments)
    IN  [ result |->
            [ i \in 1..Len(dated) |->
                [ Name |-> dated[i].Name,
                  CourseName |-> courseName,
                  CategoryName |-> categoryByAssignment(groups, weighted, dated[i].ID),
                  DueAt |-> Val(dated[i].DueAt),
                  PointsPossible |-> dated[i].PointsPossible,
                  Submission |-> subInfoByAssignment(rawSubmissions, dated[i].ID),
                  Status |-> <<>>,
                  Impact |-> IF dated[i].ID \in DOMAIN impactMap
                             THEN Some(impactMap[dated[i].ID]) ELSE None ] ],
          err |-> None ]

-----------------------------------------------------------------------------
(* Grade table *)

(* the names of the model in the order of Go's < on strings *)
NameOrder == <<"", "A", "Art", "B", "Homework", "Math", "Tests", "Unknown Course">>

StringLess(a, b) ==
    (CHOOSE i \in 1..Len(NameOrder) : NameOrder[i] = a)
        < (CHOOSE i \in 1..Len(NameOrder) : NameOrder[i] = b)

(* sort.Slice: any order of the slice in which no element stands before one
   that the comparator puts strictly before it; less[<<i, j>>] is the
   comparator on the elements i and j of s *)
SortSlice(s, less) ==
    LET n == Len(s)
        orders == { f \in [1..n -> 1..n] :
                      /\ \A i, j \in 1..n : i # j => f[i] # f[j]
                      /\ \A i, j \in 1..n :
                            (i < j /\ less[<<f[j], f[i]>>]) => less[<<f[i], f[j]>>] }
    IN  { [ i \in 1..n |-> s[f[i]] ] : f \in orders }

(* the pairs of indices of a slice *)
Pairs(s) == (1..Len(s)) \X (1..Len(s))

(* scoreByAssignment[id]: the score of the last submission of the assignment
   that has one *)
scoreByAssignment(submissions, id) ==
    LET at == { i \in 1..Len(submissions) :
                  submissions[i].AssignmentID = id /\ ~IsNil(submissions[i].Score) }
    IN  IF at = {} THEN None ELSE submissions[Max(at)].Score

(* the CategoryGrade of one group *)
categoryGradeOf(group, submissions, period) ==
    LET counted == { k \in 1..Len(group.Assignments) :
                        /\ ~(\/ IsNil(group.Assignments[k].PointsPossible)
                             \/ Val(group.Assignments[k].PointsPossible) = 0)
                        /\ assignmentInPeriod(group.Assignments[k], period)
                        /\ ~IsNil(scoreByAssignment(submissions, group.Assignments[k].ID)) }
        points == Sum(counted, [ k \in counted |->
                        Val(scoreByAssignment(submissions, group.Assignments[k].ID)) ])
        possible == Sum(counted, [ k \in counted |->
                        Val(group.Assignments[k].PointsPossible) ])
    IN  [ Name |-> group.Name,
          Points |-> points,
          PointsPossible |-> possible,
          Percent |-> IF possible > 0 THEN Percent(points, possible) ELSE Zero,
          Weight |-> group.GroupWeight ]

(* buildCategoryGrades: the orders sort.Slice may leave the categories in;
   `response` is what client.Submissions answers *)
buildCategoryGrades(response, groups, period) ==
    IF IsNil(response) THEN {<<>>}
    ELSE LET kept == SelectSeq(groups, LAMBDA g : g.GroupWeight # 0)
             built == [ i \in 1..Len(kept) |->
                          categoryGradeOf(kept[i], Val(response), period) ]
             byName == [ p \in Pairs(built) |->
                           StringLess(built[p[1]].Name, built[p[2]].Name) ]
         IN  SortSlice(built, byName)

NoGrade == [period |-> None, grade |-> None]

(* fetchCourseGrade at time n: the set of (period, grade) pairs it may return *)
fetchCourseGrade(course, r, n) ==
    IF IsNil(r.GradingPeriods) THEN {NoGrade}
    ELSE LET current == currentGradingPeriod(Val(r.GradingPeriods), n)
             enrollments == SliceOf(r.Enrollments)
         IN
    IF IsNil(current) THEN {NoGrade}
    ELSE IF IsNil(r.Enrollments) \/ Len(enrollments) = 0 THEN {NoGrade}
    ELSE IF IsNil(enrollments[1].CurrentScore) THEN {NoGrade}
    ELSE LET percent == Val(enrollments[1].CurrentScore)
             courseName == IF course.Name = "" THEN "Unknown Course" ELSE course.Name
             groups == NilIfEmpty(r.AssignmentGroups)
             points == IF ~IsNil(enrollments[1].CurrentPoints)
                       THEN Val(enrollments[1].CurrentPoints) ELSE 0
             pointsPossible == IF percent > 0 THEN Rat(points * 100, percent) ELSE Zero
         IN  IF isWeightedGrading(groups)
             THEN { [ period |-> current,
                      grade |-> Some([ CourseName |-> courseName, Points |-> 0,
                                       PointsPossible |-> Zero, Percent |-> percent,
                                       Weighted |-> TRUE, Categories |-> categories_ ]) ] :
                      categories_ \in buildCategoryGrades(r.Submissions, SliceOf(groups),
                                                          current) }
             ELSE { [ period |-> current,
                      grade |-> Some([ CourseName |-> courseName, Points |-> points,
                                       PointsPossible |-> pointsPossible,
                                       Percent |-> percent, Weighted |-> FALSE,
                                       Categories |-> <<>> ]) ] }

(* the comparator with its two arguments the other way round *)
periodLessReversed(x, y) ==
    IF IsNil(y.period.StartDate) THEN TRUE
    ELSE IF IsNil(x.period.StartDate) THEN FALSE
    ELSE Val(y.period.StartDate) < Val(x.period.StartDate)

(* the comparator of the sort of the grade groups *)
periodLess(x, y) ==
    IF IsNil(x.period.StartDate) THEN TRUE
    ELSE IF IsNil(y.period.StartDate) THEN FALSE
    ELSE Val(x.period.StartDate) < Val(y.period.StartDate)

(* periodMap[title] after the grouping loop: the period of the first result
   of that title and the grades of all of them, in the order of the results *)
periodMapOf(res, title) ==
    LET of == SelectSeq(res, LAMBDA x : Val(x.period).Title = title)
    IN  [ period |-> Val(of[1].period),
          grades |-> [ i \in 1..Len(of) |-> Val(of[i].grade) ] ]

(* the groups fetchAllGrades may return for the results `res`: the map is
   ranged over in any order, the grades of each group are sorted by course
   name and the groups by the start date of their period *)
groupGrades(res) ==
    LET titles == { Val(res[i].period).Title : i \in 1..Len(res) }
        n == Cardinality(titles)
        byCourseName(grades) ==
            [ p \in Pairs(grades) |->
                StringLess(grades[p[1]].CourseName, grades[p[2]].CourseName) ]
        sortedGroups(title) ==
            { [ period |-> periodMapOf(res, title).period, grades |-> g ] :
                g \in SortSlice(periodMapOf(res, title).grades,
                                byCourseName(periodMapOf(res, title).grades)) }
        ranges == { e \in [1..n -> titles] : \A i, j \in 1..n : i # j => e[i] # e[j] }
        unsorted == UNION { { g \in [1..n -> UNION { sortedGroups(t) : t \in titles }] :
                                \A i \in 1..n : g[i] \in sortedGroups(e[i]) } :
                            e \in ranges }
    IN  UNION { SortSlice(g, [ p \in Pairs(g) |-> periodLess(g[p[1]], g[p[2]]) ]) :
                  g \in unsorted }

-----------------------------------------------------------------------------
(* Input domains *)

ScoreValues == {0, Points(8)}

SubmissionValues ==
    [ AssignmentID : {1},
      SubmittedAt : BOOLEAN,
      GradedAt : BOOLEAN,
      Score : {None} \cup {Some(v) : v \in ScoreValues},
      Missing : BOOLEAN,
      Excused : BOOLEAN,
      GradeMatchesCurrentSubmission : {None, Some(TRUE), Some(FALSE)} ]

NowValues == (FirstDay * Day)..((FirstDay + 7) * Day - 1)

DueValues(n) ==
    ((truncateToDay(n) - 1)..(truncateToDay(n) + 8 * Day))
        \cup {n - oneMonthAgo - 1, n - oneMonthAgo, n - oneMonthAgo + 1}

(* an EnrichedAssignment as fetchCourseAssignments builds it; assignments
   are told apart by Name, which stands for the assignment's ID *)
Enriched(name, due, pts, sub) ==
    [ Name |-> name, CourseName |-> "Course", CategoryName |-> "", DueAt |-> due,
      PointsPossible |-> pts,
      Submission |-> IF IsNil(sub) THEN None
                     ELSE Some([Val(sub) EXCEPT !.AssignmentID = name]),
      Status |-> <<>>, Impact |-> None ]

(* the due times at the edges of the windows *)
EdgeDueValues(n) ==
    { n - oneMonthAgo - 1, n - oneMonthAgo, n - 1, n, n + 1,
      nextSchoolDay(truncateToDay(n)) }

(* no submission, flagged missing, graded zero, awaiting grade, handed in
   and graded, flagged missing and excused *)
TypicalSubmissions ==
    { None } \cup
    { Some([ AssignmentID |-> 1, SubmittedAt |-> f[1], GradedAt |-> f[2], Score |-> f[3],
             Missing |-> f[4], Excused |-> f[5],
             GradeMatchesCurrentSubmission |-> f[6] ]) :
        f \in { <<FALSE, FALSE, None, TRUE, FALSE, None>>,
                <<FALSE, TRUE, Some(0), FALSE, FALSE, Some(TRUE)>>,
                <<TRUE, FALSE, None, TRUE, FALSE, Some(FALSE)>>,
                <<TRUE, TRUE, Some(Points(8)), FALSE, FALSE, Some(TRUE)>>,
                <<FALSE, FALSE, None, TRUE, TRUE, None>> } }

(* One assignment: every due time around the windows with each typical
   submission, and every submission state with each due time at an edge of
   a window. *)
SingleInputs(n) ==
    { <<Enriched(1, due, Some(Points(8)), sub)>> :
        due \in DueValues(n), sub \in TypicalSubmissions }
    \cup
    { <<Enriched(1, due, Some(Points(8)), sub)>> :
        due \in EdgeDueValues(n),
        sub \in {None} \cup {Some(sub) : sub \in SubmissionValues} }

Sub(submitted, graded, score, miss, excused) ==
    Some([ AssignmentID |-> 1, SubmittedAt |-> submitted, GradedAt |-> graded,
           Score |-> score, Missing |-> miss, Excused |-> excused,
           GradeMatchesCurrentSubmission |-> None ])

(* Several assignments, each one of a few typical ones: overdue, due on the
   next school day and due the day after it, not handed in, graded zero (of
   8 points and of 7 points and a fraction), handed in, or excused. *)
Catalogue(n) ==
    LET tomorrow == nextSchoolDay(truncateToDay(n))
    IN  { <<n - Day, Some(Points(8)), None>>,
          <<n - 1, Some(Points(8)), Sub(FALSE, TRUE, Some(0), FALSE, FALSE)>>,
          <<n - 1, Some(Points(7) + 1), Sub(FALSE, TRUE, Some(0), FALSE, FALSE)>>,
          <<n - 1, None, Sub(FALSE, TRUE, Some(0), TRUE, FALSE)>>,
          <<n - Day, Some(Points(8)), Sub(TRUE, TRUE, Some(Points(8)), FALSE, FALSE)>>,
          <<tomorrow, Some(Points(8)), None>>,
          <<tomorrow, Some(Points(8)), Sub(FALSE, FALSE, None, FALSE, TRUE)>>,
          <<tomorrow + 1, Some(Points(8)), Sub(TRUE, FALSE, None, FALSE, FALSE)>>,
          <<tomorrow + Day, Some(Points(8)), None>>,
          <<tomorrow + Day + 1, Some(Points(8)), Sub(TRUE, FALSE, None, FALSE, FALSE)>> }

ListInputs(n) ==
    UNION { { [i \in 1..k |-> Enriched(i, f[i][1], f[i][2], f[i][3])] :
                f \in [1..k -> Catalogue(n)] } : k \in 2..MaxAssignments }

-----------------------------------------------------------------------------
(* The classification part of one report run: fetchStudentData from the
   merged assignment list on. *)

Init ==
    /\ clock \in NowValues
    /\ runStart = clock
    /\ showAll \in BOOLEAN
    /\ pc = "missing"
    /\ assignments \in SingleInputs(clock) \cup ListInputs(clock)
    /\ now = [missing |-> None, upcoming |-> None, weekAhead |-> None]
    /\ missing = <<>>
    /\ upcoming = <<>>
    /\ weekAhead = <<>>
    /\ upcomingPending = None
    /\ weekAheadPending = None
    /\ impactIn = None
    /\ impacts = <<>>
    /\ client = <<>>
    /\ taskPc = <<>>
    /\ courseResult = <<>>
    /\ errors = <<>>
    /\ completed = 0
    /\ mu = 0
    /\ categories = None
    /\ results = <<>>
    /\ grouped = None
    /\ observed = <<>>
    /\ genPc = "idle"
    /\ allStudents = <<>>
    /\ printIdx = 0
    /\ genErr = None
    /\ stdout = <<>>
    /\ stderr = <<>>

Tick ==
    /\ pc \in {"fetch", "grades", "upcoming", "weekAhead"}
    /\ clock < runStart + MaxElapsed
    /\ clock' = clock + 1
    /\ UNCHANGED <<runStart, pc, classifierVars, impactVars, studentVars, gradeVars, courseVars, reportVars, stderr>>

MissingAssignments ==
    /\ pc = "missing"
    /\ missing' \in missingAssignments(assignments, clock, showAll)
    /\ now' = [now EXCEPT !.missing = Some(clock)]
    /\ pc' = "upcoming"
    /\ UNCHANGED <<clock, runStart, showAll, assignments, upcoming, weekAhead, impactVars, studentVars, gradeVars, courseVars, reportVars, stderr>>

UpcomingAssignments ==
    /\ pc = "upcoming"
    /\ upcoming' \in upcomingAssignments(assignments, clock)
    /\ now' = [now EXCEPT !.upcoming = Some(clock)]
    /\ pc' = "weekAhead"
    /\ UNCHANGED <<clock, runStart, showAll, assignments, missing, weekAhead, impactVars, studentVars, gradeVars, courseVars, reportVars, stderr>>

(* the call of weekAheadAssignments and the studentData that fetchStudentData
   then returns, with the pending counts of the two buckets *)
WeekAheadAssignments ==
    /\ pc = "weekAhead"
    /\ weekAhead' \in weekAheadAssignments(assignments, clock)
    /\ now' = [now EXCEPT !.weekAhead = Some(clock)]
    /\ upcomingPending' = Some(countPending(upcoming))
    /\ weekAheadPending' = Some(countPending(weekAhead'))
    /\ pc' = "done"
    /\ UNCHANGED <<clock, runStart, showAll, assignments, missing, upcoming, impactVars,
                   gradeVars, courseVars, reportVars, stderr>>

Next ==
    \/ Tick
    \/ MissingAssignments
    \/ UpcomingAssignments
    \/ WeekAheadAssignments

Spec == Init /\ [][Next]_vars

-----------------------------------------------------------------------------
(* calculateAssignmentImpacts on its own: a course of two assignment groups,
   A with the members 1 and 2 and B with the member 3.  Member 1 ranges over
   every points-possible, due-date and submission state the function tells
   apart, a score below zero included (the client decodes any number);
   members 2 and 3 are graded or not, member 2 also above its points
   possible. *)

PeriodStart == (FirstDay - 28) * Day
PeriodEnd == (FirstDay + 28) * Day

PeriodValues ==
    { None,
      Some([ID |-> 7, Title |-> "Q2", StartDate |-> Some(PeriodStart),
            EndDate |-> Some(PeriodEnd)]),
      Some([ID |-> 7, Title |-> "Q2", StartDate |-> None,
            EndDate |-> Some(PeriodEnd)]) }

Member(id, pts, due) == [ID |-> id, PointsPossible |-> pts, DueAt |-> due]

Group(id, name, weight, members) ==
    [ID |-> id, Name |-> name, GroupWeight |-> weight, Assignments |-> members]

GradeRecord(id, score, miss, graded) ==
    [ AssignmentID |-> id, SubmittedAt |-> FALSE, GradedAt |-> graded,
      Score |-> score, Missing |-> miss, Excused |-> FALSE,
      GradeMatchesCurrentSubmission |-> None ]

ImpactGroups ==
    { << Group(1, "A", w1, << Member(1, pts, due),
                              Member(2, Some(Points(200)), Some(PeriodStart)) >>),
         Group(2, "B", w2, << Member(3, Some(Points(60)), Some(PeriodEnd)) >>) >> :
        w1 \in {0, 40}, w2 \in {0, 60},
        pts \in {None, Some(0), Some(Points(50))},
        due \in {None, Some(PeriodStart), Some(PeriodEnd + 1)} }

ImpactSubmissions ==
    { s1 \o s2 \o s3 :
        s1 \in {<<>>} \cup { <<GradeRecord(1, score, miss, graded)>> :
                               score \in {None, Some(0), Some(Points(40)), Some(Points(-10))},
                               miss \in BOOLEAN, graded \in BOOLEAN },
        s2 \in { <<>>, <<GradeRecord(2, Some(Points(190)), FALSE, TRUE)>>,
                 <<GradeRecord(2, Some(Points(210)), FALSE, TRUE)>> },
        s3 \in { <<>>, <<GradeRecord(3, Some(Points(30)), FALSE, TRUE)>>,
                 <<GradeRecord(3, Some(0), FALSE, TRUE)>> } }

InitImpact ==
    /\ clock = FirstDay * Day
    /\ runStart = clock
    /\ showAll = FALSE
    /\ pc = "impacts"
    /\ assignments = <<>>
    /\ now = [missing |-> None, upcoming |-> None, weekAhead |-> None]
    /\ missing = <<>>
    /\ upcoming = <<>>
    /\ weekAhead = <<>>
    /\ upcomingPending = None
    /\ weekAheadPending = None
    /\ \E groups \in ImpactGroups, submissions \in ImpactSubmissions,
          currentOverall \in {0, 95}, period \in PeriodValues :
            impactIn = Some([ groups |-> groups, submissions |-> submissions,
                              currentOverall |-> currentOverall,
                              weighted |-> isWeightedGrading(Some(groups)),
                              period |-> period ])
    /\ impacts = <<>>
    /\ client = <<>>
    /\ taskPc = <<>>
    /\ courseResult = <<>>
    /\ errors = <<>>
    /\ completed = 0
    /\ mu = 0
    /\ categories = None
    /\ results = <<>>
    /\ grouped = None
    /\ observed = <<>>
    /\ genPc = "idle"
    /\ allStudents = <<>>
    /\ printIdx = 0
    /\ genErr = None
    /\ stdout = <<>>
    /\ stderr = <<>>

CalculateAssignmentImpacts ==
    /\ pc = "impacts"
    /\ impacts' = calculateAssignmentImpacts(Val(impactIn).groups, Val(impactIn).submissions,
                                             Val(impactIn).currentOverall,
                                             Val(impactIn).weighted, Val(impactIn).period)
    /\ pc' = "done"
    /\ UNCHANGED <<clock, runStart, classifierVars, impactIn, studentVars, gradeVars, courseVars, reportVars, stderr>>

(* the call of buildCategoryGrades that fetchCourseGrade makes for the same
   course when the course is weighted and has a current grading period *)
BuildCategoryGrades ==
    /\ pc \in {"impacts", "done"}
    /\ ~IsNil(impactIn)
    /\ IsNil(categories)
    /\ Val(impactIn).weighted
    /\ ~IsNil(Val(impactIn).period)
    /\ currentGradingPeriod(<<Val(Val(impactIn).period)>>, clock) = Val(impactIn).period
    /\ \E built \in buildCategoryGrades(Some(Val(impactIn).submissions),
                                         Val(impactIn).groups, Val(impactIn).period) :
          categories' = Some(built)
    /\ UNCHANGED <<clock, runStart, pc, classifierVars, impactVars, studentVars, courseVars,
                   results, grouped, reportVars, stderr>>

NextImpact ==
    \/ CalculateAssignmentImpacts
    \/ BuildCategoryGrades

SpecImpact == InitImpact /\ [][NextImpact]_vars

-----------------------------------------------------------------------------
(* One report run of a student from fetchAllAssignments on: one goroutine per
   course fetches the course and merges its result under the mutex, and after
   wg.Wait() the merged list is classified.  Each course has two assignments,
   the first without a submission and with or without a due date, the second
   handed in and due on the next school day, both in one weighted group; at
   most one of the client's calls for a course fails, in at most MaxFailing
   courses, and the first assignment has no due date only when none or the
   assignment-groups call fails.  No assignment is due before the 30-day
   cutoff, so the run is the same with and without --all. *)

Courses == 1..NumCourses

CourseOf(c) == [ID |-> c, Name |-> IF c = 2 THEN "" ELSE IF c = 1 THEN "Math" ELSE "Art"]

ClientCalls == {"assignments", "submissions", "groups", "periods", "enrollments"}

CourseResponses(c, n) ==
    { LET tomorrow == nextSchoolDay(truncateToDay(n))
          answer(call, slice) == IF failing = call THEN None ELSE Some(slice)
      IN  [ Assignments |-> answer("assignments",
                << [ID |-> 2 * c - 1, Name |-> 2 * c - 1, DueAt |-> due,
                    PointsPossible |-> Some(Points(8))],
                   [ID |-> 2 * c, Name |-> 2 * c, DueAt |-> Some(tomorrow),
                    PointsPossible |-> Some(Points(8))] >>),
            Submissions |-> answer("submissions",
                << [ AssignmentID |-> 2 * c, SubmittedAt |-> TRUE, GradedAt |-> FALSE,
                     Score |-> None, Missing |-> FALSE, Excused |-> FALSE,
                     GradeMatchesCurrentSubmission |-> None ] >>),
            AssignmentGroups |-> answer("groups",
                << Group(c, "Homework", 40,
                         << Member(2 * c - 1, Some(Points(8)), due),
                            Member(2 * c, Some(Points(8)), Some(tomorrow)) >>) >>),
            GradingPeriods |-> answer("periods",
                << [ID |-> 7, Title |-> "Q2", StartDate |-> Some(n - 28 * Day),
                    EndDate |-> Some(n + 28 * Day)] >>),
            Enrollments |-> answer("enrollments",
                << [CurrentScore |-> Some(95), CurrentPoints |-> None] >>) ] :
        <<due, failing>> \in
            { p \in {None, Some(n - 1)} \X (ClientCalls \cup {"none"}) :
                IsNil(p[1]) => p[2] \in {"groups", "none"} } }

(* one of the client's calls for the course fails *)
HasFailure(r) ==
    \E call \in {"Assignments", "Submissions", "AssignmentGroups", "GradingPeriods",
                  "Enrollments"} : IsNil(r[call])

InitCourse ==
    /\ clock = (FirstDay + 1) * Day
    /\ runStart = clock
    /\ showAll = FALSE
    /\ pc = "fetch"
    /\ assignments = <<>>
    /\ now = [missing |-> None, upcoming |-> None, weekAhead |-> None]
    /\ missing = <<>>
    /\ upcoming = <<>>
    /\ weekAhead = <<>>
    /\ upcomingPending = None
    /\ weekAheadPending = None
    /\ impactIn = None
    /\ impacts = <<>>
    /\ client \in { f \in [Courses -> UNION { CourseResponses(c, clock) : c \in Courses }] :
                      /\ \A c \in Courses : f[c] \in CourseResponses(c, clock)
                      /\ Cardinality({ c \in Courses : HasFailure(f[c]) }) <= MaxFailing }
    /\ taskPc = [c \in Courses |-> "fetch"]
    /\ courseResult = [c \in Courses |-> [result |-> <<>>, err |-> None]]
    /\ errors = <<>>
    /\ completed = 0
    /\ mu = 0
    /\ categories = None
    /\ results = <<>>
    /\ grouped = None
    /\ observed = <<>>
    /\ genPc = "idle"
    /\ allStudents = <<>>
    /\ printIdx = 0
    /\ genErr = None
    /\ stdout = <<>>
    /\ stderr = <<>>

(* the goroutine of course c up to mu.Lock() *)
FetchCourse(c) ==
    /\ pc = "fetch"
    /\ taskPc[c] = "fetch"
    /\ courseResult' = [courseResult EXCEPT
                            ![c] = fetchCourseAssignments(CourseOf(c), client[c], clock)]
    /\ taskPc' = [taskPc EXCEPT ![c] = "merge"]
    /\ UNCHANGED <<clock, runStart, pc, classifierVars, impactVars, studentVars, gradeVars, client, errors, completed, mu, reportVars, stderr>>

(* mu.Lock() of a goroutine that does not wait for the mutex to be free *)
LockWithoutWaiting(c) ==
    /\ pc = "fetch"
    /\ taskPc[c] = "merge"
    /\ mu' = c
    /\ taskPc' = [taskPc EXCEPT ![c] = "locked"]
    /\ UNCHANGED <<clock, runStart, pc, classifierVars, impactVars, studentVars, gradeVars,
                   client, courseResult, errors, completed, reportVars, stderr>>

(* mu.Lock() of the goroutine of course c *)
Lock(c) ==
    /\ pc = "fetch"
    /\ taskPc[c] = "merge"
    /\ mu = 0
    /\ mu' = c
    /\ taskPc' = [taskPc EXCEPT ![c] = "locked"]
    /\ UNCHANGED <<clock, runStart, pc, classifierVars, impactVars, studentVars, gradeVars,
                   client, courseResult, errors, completed, reportVars, stderr>>

(* the goroutine of course c from after mu.Lock() to mu.Unlock(), and wg.Done() *)
MergeCourse(c) ==
    /\ pc = "fetch"
    /\ taskPc[c] = "locked"
    /\ errors' = IF ~IsNil(courseResult[c].err)
                 THEN Append(errors, <<CourseOf(c).Name, Val(courseResult[c].err)>>)
                 ELSE errors
    /\ assignments' = assignments \o courseResult[c].result
    /\ completed' = completed + 1
    /\ mu' = 0
    /\ taskPc' = [taskPc EXCEPT ![c] = "done"]
    /\ UNCHANGED <<clock, runStart, pc, showAll, now, missing, upcoming, weekAhead,
                   impactVars, studentVars, gradeVars, client, courseResult, reportVars, stderr>>

(* Join without the warnings *)
JoinSilent ==
    /\ pc = "fetch"
    /\ \A c \in DOMAIN taskPc : taskPc[c] = "done"
    /\ pc' = "missing"
    /\ UNCHANGED <<clock, runStart, classifierVars, impactVars, studentVars, gradeVars, courseVars, reportVars, stderr>>

(* wg.Wait() returns, fetchAllAssignments prints one warning per error and
   hands over the merged list *)
Join ==
    /\ pc = "fetch"
    /\ \A c \in Courses : taskPc[c] = "done"
    /\ stderr' = stderr \o [ i \in 1..Len(errors) |-> <<"warning", errors[i]>> ]
    /\ pc' = "missing"
    /\ UNCHANGED <<clock, runStart, classifierVars, impactVars, studentVars, gradeVars, courseVars, reportVars>>

NextCourse ==
    \/ \E c \in Courses : FetchCourse(c)
    \/ \E c \in Courses : Lock(c)
    \/ \E c \in Courses : MergeCourse(c)
    \/ Join
    \/ Tick
    \/ MissingAssignments
    \/ UpcomingAssignments
    \/ WeekAheadAssignments

SpecCourse == InitCourse /\ [][NextCourse]_vars

-----------------------------------------------------------------------------
(* main and Report.Generate: the observed students are fetched one after the
   other, then their reports are printed.  What fetchStudentData does after
   r.client.Courses has answered is followed in Spec and SpecCourse; here a
   student's data is its display name and the number of its courses. *)

Students == 1..NumStudents

StudentName(i) == IF i = 1 THEN "Ann" ELSE IF i = 2 THEN "Ben" ELSE IF i = 3 THEN "Cleo" ELSE "Dan"

ObserveeValues(i) ==
    [ ID : {i}, Name : {"", StudentName(i)}, ShortName : {"", "Kid"} ]

CoursesResponses == { None, Some(<<>>), Some(<<CourseOf(1)>>) }

ObservedValues ==
    { [Observees |-> None, Courses |-> <<>>] }
        \cup UNION { { [Observees |-> Some(o), Courses |-> c] :
                          o \in { f \in [1..k -> UNION { ObserveeValues(i) : i \in 1..k }] :
                                    \A i \in 1..k : f[i].ID = i },
                          c \in [1..k -> CoursesResponses] } : k \in 0..NumStudents }

(* the display name fetchStudentData picks *)
displayName(student) ==
    IF student.Name # "" THEN student.Name
    ELSE IF student.ShortName # "" THEN student.ShortName
    ELSE "Unknown Student"

InitGenerate ==
    /\ clock = FirstDay * Day
    /\ runStart = clock
    /\ showAll = FALSE
    /\ pc = "idle"
    /\ assignments = <<>>
    /\ now = [missing |-> None, upcoming |-> None, weekAhead |-> None]
    /\ missing = <<>>
    /\ upcoming = <<>>
    /\ weekAhead = <<>>
    /\ upcomingPending = None
    /\ weekAheadPending = None
    /\ impactIn = None
    /\ impacts = <<>>
    /\ client = <<>>
    /\ taskPc = <<>>
    /\ courseResult = <<>>
    /\ errors = <<>>
    /\ completed = 0
    /\ mu = 0
    /\ categories = None
    /\ results = <<>>
    /\ grouped = None
    /\ observed \in ObservedValues
    /\ genPc = "observees"
    /\ allStudents = <<>>
    /\ printIdx = 0
    /\ genErr = None
    /\ stdout = <<>>
    /\ stderr = <<>>

(* Generate up to its loop over the observees *)
Observees ==
    /\ genPc = "observees"
    /\ IF IsNil(observed.Observees)
       THEN /\ genErr' = Some(<<"observees">>)
            /\ genPc' = "returned"
            /\ stdout' = stdout
       ELSE IF Len(Val(observed.Observees)) = 0
       THEN /\ stdout' = Append(stdout, <<"No observed students found">>)
            /\ genPc' = "returned"
            /\ genErr' = genErr
       ELSE /\ genPc' = "fetch"
            /\ UNCHANGED <<genErr, stdout>>
    /\ UNCHANGED <<clock, runStart, pc, classifierVars, impactVars, studentVars, gradeVars, courseVars, observed,
                   allStudents, printIdx, stderr>>

(* one turn of the loop over the observees: fetchStudentData of the next
   student, and the return of Generate when it fails *)
FetchStudentData ==
    /\ genPc = "fetch"
    /\ LET i == Len(allStudents) + 1
           student == Val(observed.Observees)[i]
           courses == observed.Courses[i]
       IN  IF IsNil(courses)
           THEN /\ genErr' = Some(<<"courses", student.ID>>)
                /\ genPc' = "returned"
                /\ UNCHANGED <<allStudents, printIdx, stderr>>
           ELSE /\ allStudents' = Append(allStudents,
                                         [ name |-> displayName(student),
                                           courses |-> Len(Val(courses)) ])
                /\ stderr' = Append(stderr, <<"fetched", displayName(student)>>)
                /\ genPc' = IF i = Len(Val(observed.Observees)) THEN "print" ELSE "fetch"
                /\ printIdx' = IF i = Len(Val(observed.Observees)) THEN 1 ELSE printIdx
                /\ genErr' = genErr
    /\ UNCHANGED <<clock, runStart, pc, classifierVars, impactVars, studentVars, gradeVars, courseVars, observed,
                   stdout>>

(* one turn of the printing loop, and the return of Generate after the last *)
PrintReport ==
    /\ genPc = "print"
    /\ stdout' = stdout \o (IF printIdx > 1 THEN << <<"separator">> >> ELSE <<>>)
                        \o << <<"report", allStudents[printIdx].name>> >>
    /\ printIdx' = printIdx + 1
    /\ genPc' = IF printIdx = Len(allStudents) THEN "returned" ELSE "print"
    /\ UNCHANGED <<clock, runStart, pc, classifierVars, impactVars, studentVars, gradeVars, courseVars, observed,
                   allStudents, genErr, stderr>>

(* main after Generate has returned *)
Exit ==
    /\ genPc = "returned"
    /\ stderr' = IF IsNil(genErr) THEN stderr ELSE Append(stderr, <<"Error", Val(genErr)>>)
    /\ genPc' = "exited"
    /\ UNCHANGED <<clock, runStart, pc, classifierVars, impactVars, studentVars, gradeVars, courseVars, observed,
                   allStudents, printIdx, genErr, stdout>>

NextGenerate ==
    \/ Observees
    \/ FetchStudentData
    \/ PrintReport
    \/ Exit

SpecGenerate == InitGenerate /\ [][NextGenerate]_vars

-----------------------------------------------------------------------------
(* fetchAllGrades of one student: one goroutine per course calls
   fetchCourseGrade and appends its result under the mutex, and after
   wg.Wait() the results are grouped by the title of the grading period.
   A course answers with a grading period "Q2" that began 28 or 14 days ago,
   a grading period "Q1" that began 56 days ago and ends at the start of
   the run, a period without a start date, or an error; its enrollment
   has a current score or none; its groups are weighted, unweighted or
   fail. *)

GradingPeriodOf(id, title, start, end) ==
    [ID |-> id, Title |-> title, StartDate |-> start, EndDate |-> end]

GradeResponses(c, n) ==
    LET q2 == GradingPeriodOf(7, "Q2", Some(n - 28 * Day), Some(n + 28 * Day))
        q2late == GradingPeriodOf(8, "Q2", Some(n - 14 * Day), Some(n + 28 * Day))
        q1 == GradingPeriodOf(6, "Q1", Some(n - 56 * Day), Some(n))
        open == GradingPeriodOf(5, "Q2", None, Some(n + 28 * Day))
        scored == << [CurrentScore |-> Some(95), CurrentPoints |-> Some(Points(19))] >>
        unscored == << [CurrentScore |-> None, CurrentPoints |-> None] >>
        groups(w1, w2) ==
            << Group(2 * c, "Tests", w1, << Member(2 * c - 1, Some(Points(8)), None) >>),
               Group(2 * c - 1, "Homework", w2, << Member(2 * c, Some(Points(8)), None) >>) >>
        submissions == << GradeRecord(2 * c - 1, Some(Points(6)), FALSE, TRUE),
                          GradeRecord(2 * c, Some(0), TRUE, FALSE) >>
        answers(periods, enrollments, assignmentGroups) ==
            [ Assignments |-> Some(<<>>),
              Submissions |-> Some(submissions),
              AssignmentGroups |-> assignmentGroups,
              GradingPeriods |-> periods,
              Enrollments |-> Some(enrollments) ]
    IN  { answers(Some(<<q2>>), scored, Some(groups(0, 0))),
          answers(Some(<<q2late>>), scored, Some(groups(60, 40))),
          answers(Some(<<q1, q2>>), scored, Some(groups(0, 0))),
          answers(Some(<<q1>>), scored, None),
          answers(Some(<<open>>), scored, Some(groups(0, 0))),
          answers(Some(<<q2>>), unscored, Some(groups(0, 0))),
          answers(None, scored, Some(groups(60, 40))) }

InitGrades ==
    /\ clock = (FirstDay + 1) * Day
    /\ runStart = clock
    /\ showAll = FALSE
    /\ pc = "grades"
    /\ assignments = <<>>
    /\ now = [missing |-> None, upcoming |-> None, weekAhead |-> None]
    /\ missing = <<>>
    /\ upcoming = <<>>
    /\ weekAhead = <<>>
    /\ upcomingPending = None
    /\ weekAheadPending = None
    /\ impactIn = None
    /\ impacts = <<>>
    /\ client \in { f \in [Courses -> UNION { GradeResponses(c, clock) : c \in Courses }] :
                      \A c \in Courses : f[c] \in GradeResponses(c, clock) }
    /\ taskPc = [c \in Courses |-> "fetch"]
    /\ courseResult = [c \in Courses |-> NoGrade]
    /\ errors = <<>>
    /\ completed = 0
    /\ mu = 0
    /\ categories = None
    /\ results = <<>>
    /\ grouped = None
    /\ observed = <<>>
    /\ genPc = "idle"
    /\ allStudents = <<>>
    /\ printIdx = 0
    /\ genErr = None
    /\ stdout = <<>>
    /\ stderr = <<>>

(* the goroutine of course c up to mu.Lock() *)
FetchCourseGrade(c) ==
    /\ pc = "grades"
    /\ taskPc[c] = "fetch"
    /\ \E res \in fetchCourseGrade(CourseOf(c), client[c], clock) :
          courseResult' = [courseResult EXCEPT ![c] = res]
    /\ taskPc' = [taskPc EXCEPT ![c] = "merge"]
    /\ UNCHANGED <<clock, runStart, pc, classifierVars, impactVars, studentVars, gradeVars,
                   client, errors, completed, mu, reportVars, stderr>>

(* the goroutine of course c from mu.Lock() to mu.Unlock(), and wg.Done() *)
MergeGrade(c) ==
    /\ pc = "grades"
    /\ taskPc[c] = "merge"
    /\ mu = 0
    /\ results' = IF ~IsNil(courseResult[c].period) /\ ~IsNil(courseResult[c].grade)
                  THEN Append(results, courseResult[c])
                  ELSE results
    /\ taskPc' = [taskPc EXCEPT ![c] = "done"]
    /\ UNCHANGED <<clock, runStart, pc, classifierVars, impactVars, studentVars, categories,
                   grouped, client, courseResult, errors, completed, mu, reportVars, stderr>>

(* wg.Wait() returns and fetchAllGrades groups and sorts the results *)
GroupGrades ==
    /\ pc = "grades"
    /\ \A c \in Courses : taskPc[c] = "done"
    /\ \E g \in groupGrades(results) : grouped' = Some(g)
    /\ pc' = "done"
    /\ UNCHANGED <<clock, runStart, classifierVars, impactVars, studentVars, categories,
                   results, courseVars, reportVars, stderr>>

NextGrades ==
    \/ \E c \in Courses : FetchCourseGrade(c)
    \/ \E c \in Courses : MergeGrade(c)
    \/ GroupGrades
    \/ Tick

SpecGrades == InitGrades /\ [][NextGrades]_vars

-----------------------------------------------------------------------------
(* Vocabulary of the properties *)

Monday == 1

Names(list) == {list[i].Name : i \in 1..Len(list)}
Assignments == {assignments[i] : i \in 1..Len(assignments)}
Ran(p) == ~IsNil(now[p])
LocalDate(a) == a.DueAt \div Day
Today(p) == Val(now[p]) \div Day

HasSubmission(a) == ~IsNil(a.Submission)
Flagged(a, flag) == HasSubmission(a) /\ Val(a.Submission)[flag]

(* "missing" in the words of the classifier's description: no submission, or
   flagged missing, or a zero score with a graded timestamp *)
StatedMissing(a) ==
    \/ ~HasSubmission(a)
    \/ Flagged(a, "Missing")
    \/ /\ Val(a.Submission).Score = Some(0)
       /\ Flagged(a, "GradedAt")

(* submitted, and the grade flagged as not matching the current submission *)
StatedAwaitingGrade(a) ==
    /\ Flagged(a, "SubmittedAt")
    /\ Val(a.Submission).GradeMatchesCurrentSubmission = Some(FALSE)

(* the next school day of day d: the following Monday on Friday and Saturday,
   the next calendar day otherwise *)
StatedNextSchoolDay(d) ==
    IF d % 7 \in {Friday, Saturday}
    THEN CHOOSE m \in (d + 1)..(d + 7) :
            /\ m % 7 = Monday
            /\ \A k \in (d + 1)..(m - 1) : k % 7 # Monday
    ELSE d + 1

(* the end-of-school-week Friday of day d, in days from d *)
StatedFridayOffset(d) ==
    CASE d % 7 = Sunday -> 5
      [] d % 7 = Saturday -> 6
      [] d % 7 = Friday -> 7
      [] OTHER -> 5 - (d % 7)

-----------------------------------------------------------------------------
(* C1: whatever now, the include-older setting and the assignment, an
   assignment is in at most one of the three buckets: the lists returned by
   missingAssignments, upcomingAssignments and weekAheadAssignments are
   pairwise disjoint. *)
C1_BucketsDisjoint ==
    /\ Names(missing) \cap Names(upcoming) = {}
    /\ Names(missing) \cap Names(weekAhead) = {}
    /\ Names(upcoming) \cap Names(weekAhead) = {}

(* all three classifiers have run, on clock readings that differ, and two
   buckets are occupied *)
C1_Witness ==
    /\ pc = "done"
    /\ now.missing # now.weekAhead
    /\ missing # <<>>
    /\ upcoming # <<>>

(* C2: an assignment whose due timestamp is strictly after now is not in the
   missing bucket, whatever its submission state and the include-older
   setting. *)
C2_FutureNeverMissing ==
    Ran("missing") =>
        \A a \in Assignments :
            a.DueAt > Val(now.missing) => a.Name \notin Names(missing)

(* an assignment due after now that is flagged missing, with include-older
   set, has been through missingAssignments *)
C2_Witness ==
    /\ Ran("missing")
    /\ showAll
    /\ \E a \in Assignments :
          /\ a.DueAt > Val(now.missing)
          /\ Flagged(a, "Missing")
          /\ ~StatedAwaitingGrade(a)

(* C5: an assignment whose submission is flagged excused is never in the
   missing bucket, also when the submission is flagged missing as well. *)
C5_ExcusedNeverMissing ==
    \A a \in Assignments :
        Flagged(a, "Excused") => a.Name \notin Names(missing)

(* C6: an overdue assignment (due <= now) whose submission has a submitted
   timestamp and whose grade-matches-current-submission flag is false is in
   no bucket. *)
C6_AwaitingGradeInNoBucket ==
    Ran("missing") =>
        \A a \in Assignments :
            (a.DueAt <= Val(now.missing) /\ StatedAwaitingGrade(a)) =>
                a.Name \notin Names(missing) \cup Names(upcoming) \cup Names(weekAhead)

(* an overdue assignment flagged missing and awaiting its regrade has been
   through all three classifiers *)
C6_Witness ==
    /\ pc = "done"
    /\ \E a \in Assignments :
          /\ a.DueAt <= Val(now.missing)
          /\ a.DueAt >= Val(now.missing) - oneMonthAgo
          /\ StatedAwaitingGrade(a)
          /\ Flagged(a, "Missing")

(* C7: without the include-older override the missing bucket holds only
   assignments with now - 30 days <= due <= now; with the override, an
   assignment due more than 30 days before now that is missing and not
   awaiting grade is in the missing bucket. *)
C7_ThirtyDayWindow ==
    Ran("missing") =>
        LET n == Val(now.missing)
        IN  /\ ~showAll =>
                \A i \in 1..Len(missing) :
                    /\ n - 30 * Day <= missing[i].DueAt
                    /\ missing[i].DueAt <= n
            /\ showAll =>
                \A a \in Assignments :
                    (/\ a.DueAt < n - 30 * Day
                     /\ StatedMissing(a)
                     /\ ~StatedAwaitingGrade(a)) => a.Name \in Names(missing)

(* with the override an assignment older than 30 days is in the bucket, and
   without it one due exactly 30 days ago is *)
C7_Witness ==
    /\ Ran("missing")
    /\ \E i \in 1..Len(missing) :
          \/ showAll /\ missing[i].DueAt < Val(now.missing) - 30 * Day
          \/ ~showAll /\ missing[i].DueAt = Val(now.missing) - 30 * Day

(* C8: the today/tomorrow bucket holds exactly the assignments due today
   strictly after now and the assignments due on the next school day. *)
C8_UpcomingExact ==
    Ran("upcoming") =>
        LET n == Val(now.upcoming)
            today == Today("upcoming")
        IN  \A a \in Assignments :
                a.Name \in Names(upcoming) <=>
                    \/ LocalDate(a) = today /\ a.DueAt > n
                    \/ LocalDate(a) = StatedNextSchoolDay(today)

(* on a Friday, an assignment due the following Monday is in the bucket *)
C8_Witness ==
    /\ Ran("upcoming")
    /\ Today("upcoming") % 7 = Friday
    /\ \E i \in 1..Len(upcoming) : LocalDate(upcoming[i]) = Today("upcoming") + 3

(* C9: the week-ahead bucket holds exactly the assignments due from the day
   after the next school day through the end-of-school-week Friday, and is
   empty when that start is after that end. *)
C9_WeekAheadExact ==
    Ran("weekAhead") =>
        LET today == Today("weekAhead")
            first == StatedNextSchoolDay(today) + 1
            last == today + StatedFridayOffset(today)
        IN  /\ \A a \in Assignments :
                   a.Name \in Names(weekAhead) <=>
                       (first <= LocalDate(a) /\ LocalDate(a) <= last)
            /\ first > last => weekAhead = <<>>

(* on a Friday, an assignment due the Friday after is in the bucket *)
C9_Witness ==
    /\ Ran("weekAhead")
    /\ Today("weekAhead") % 7 = Friday
    /\ \E i \in 1..Len(weekAhead) : LocalDate(weekAhead[i]) = Today("weekAhead") + 7

-----------------------------------------------------------------------------
(* Vocabulary of the properties of calculateAssignmentImpacts *)

Members ==
    IF IsNil(impactIn) THEN {}
    ELSE UNION { { g.Assignments[k] : k \in 1..Len(g.Assignments) } :
                    g \in { Val(impactIn).groups[i] : i \in 1..Len(Val(impactIn).groups) } }

SubmissionOf(m) == subInfoByAssignment(Val(impactIn).submissions, m.ID)

HasPoints(m) == m.PointsPossible # None /\ m.PointsPossible # Some(0)

(* inside the grading period of the call; a period without both dates, or
   no period, holds everything *)
StatedInPeriod(m) ==
    LET period == Val(impactIn).period
    IN  \/ period = None
        \/ Val(period).StartDate = None
        \/ Val(period).EndDate = None
        \/ m.DueAt = None
        \/ /\ Val(Val(period).StartDate) <= Val(m.DueAt)
           /\ Val(m.DueAt) <= Val(Val(period).EndDate)

(* the score is counted in the running totals: a recorded score, other than
   the zero of a submission flagged missing that nobody graded, of an
   assignment with points in the period *)
StatedCounted(m) ==
    /\ HasPoints(m)
    /\ StatedInPeriod(m)
    /\ SubmissionOf(m) # None
    /\ Val(SubmissionOf(m)).Score # None
    /\ ~(/\ Val(SubmissionOf(m)).Missing
         /\ Val(SubmissionOf(m)).Score = Some(0)
         /\ ~Val(SubmissionOf(m)).GradedAt)

ScoreOf(m) == Val(Val(SubmissionOf(m)).Score)

(* C4 as stated: calculateAssignmentImpacts yields no impact entry for an
   assignment-group member whose due date is absent. *)
C4_NoDueDateNoImpactEntry ==
    pc = "done" =>
        \A m \in Members : m.DueAt = None => m.ID \notin DOMAIN impacts

(* C4: an assignment-group member whose due date is absent counts as inside
   every grading period; calculateAssignmentImpacts yields an impact entry
   for it exactly when its points possible are present and not zero and it is
   not counted with a positive score. *)
C4_NoDueDateImpactEntry ==
    pc = "done" =>
        \A m \in Members :
            m.DueAt = None =>
                (m.ID \in DOMAIN impacts <=>
                    (HasPoints(m) /\ ~(StatedCounted(m) /\ ScoreOf(m) > 0)))

(* under a grading period with both dates, a member without a due date has
   an impact entry *)
C4_Witness ==
    /\ pc = "done"
    /\ Val(impactIn).period # None
    /\ Val(Val(impactIn).period).StartDate # None
    /\ \E m \in Members : m.DueAt = None /\ m.ID \in DOMAIN impacts

(* C10: calculateAssignmentImpacts yields an impact entry only for
   assignments not counted in the running totals and for assignments counted
   with a score of exactly 0; an assignment counted with a positive score has
   no impact entry. *)
C10_ImpactOnlyWhenOpen ==
    pc = "done" =>
        \A m \in Members :
            /\ m.ID \in DOMAIN impacts => (~StatedCounted(m) \/ ScoreOf(m) = 0)
            /\ (StatedCounted(m) /\ ScoreOf(m) > 0) => m.ID \notin DOMAIN impacts

(* one call leaves out a member counted with a positive score and yields
   entries for a member counted with zero and for an ungraded one *)
C10_Witness ==
    /\ pc = "done"
    /\ \E m \in Members : StatedCounted(m) /\ ScoreOf(m) > 0
    /\ \E m \in Members : StatedCounted(m) /\ ScoreOf(m) = 0 /\ m.ID \in DOMAIN impacts
    /\ \E m \in Members : SubmissionOf(m) = None /\ m.ID \in DOMAIN impacts

-----------------------------------------------------------------------------
(* C3: an assignment with no due date appears in none of the three buckets:
   the course aggregator produces no EnrichedAssignment for it. *)
C3_NoDueDateInNoBucket ==
    \A c \in DOMAIN client :
        \A i \in 1..Len(SliceOf(client[c].Assignments)) :
            LET a == SliceOf(client[c].Assignments)[i]
            IN  a.DueAt = None =>
                    a.Name \notin Names(courseResult[c].result) \cup Names(assignments)
                                    \cup Names(missing) \cup Names(upcoming)
                                    \cup Names(weekAhead)

(* a course whose fetch succeeded has an assignment without a due date and
   one with, and the run has filled the missing and the today/tomorrow
   buckets from the merged list *)
C3_Witness ==
    /\ pc = "done"
    /\ missing # <<>>
    /\ upcoming # <<>>
    /\ \E c \in DOMAIN client :
          /\ courseResult[c].err = None
          /\ courseResult[c].result # <<>>
          /\ \E i \in 1..Len(SliceOf(client[c].Assignments)) :
                SliceOf(client[c].Assignments)[i].DueAt = None

-----------------------------------------------------------------------------
(* Vocabulary of the properties of the impact values *)

InGroups == { Val(impactIn).groups[i] : i \in 1..Len(Val(impactIn).groups) }

GroupOf(m) ==
    CHOOSE g \in InGroups : \E k \in 1..Len(g.Assignments) : g.Assignments[k] = m

(* the course uses weighted grading: some assignment group has a weight
   above zero *)
StatedWeighted == \E g \in InGroups : g.GroupWeight > 0

IsZeroImpact(i) == i.Gain = Zero /\ i.Loss = Zero

(* C11 as stated: for every course, an impact-eligible assignment whose
   category has weight 0 has gain = 0 and loss = 0. *)
C11_ZeroWeightNoImpactAnyCourse ==
    pc = "done" =>
        \A m \in Members :
            (m.ID \in DOMAIN impacts /\ GroupOf(m).GroupWeight = 0)
                => IsZeroImpact(impacts[m.ID])

(* C11: in a course that uses weighted grading, an impact-eligible assignment
   whose category has weight 0 has gain = 0 and loss = 0, whether it is
   ungraded or graded zero. *)
C11_ZeroWeightNoImpact ==
    (pc = "done" /\ StatedWeighted) =>
        \A m \in Members :
            (m.ID \in DOMAIN impacts /\ GroupOf(m).GroupWeight = 0)
                => IsZeroImpact(impacts[m.ID])

(* a weighted course whose weight-0 category has an entry for a member graded
   zero and an entry for a member that is not graded, beside a member of a
   weighted category whose impact is not zero *)
C11_Witness ==
    /\ pc = "done"
    /\ StatedWeighted
    /\ \E m \in Members :
          /\ GroupOf(m).GroupWeight = 0 /\ m.ID \in DOMAIN impacts
          /\ StatedCounted(m) /\ ScoreOf(m) = 0
    /\ \E m \in Members :
          /\ GroupOf(m).GroupWeight = 0 /\ m.ID \in DOMAIN impacts
          /\ SubmissionOf(m) = None
    /\ \E m \in Members : m.ID \in DOMAIN impacts /\ ~IsZeroImpact(impacts[m.ID])

(* the points earned and the points possible of a category: the sums over its
   counted members *)
StatedPoints(g) ==
    LET counted == { k \in 1..Len(g.Assignments) : StatedCounted(g.Assignments[k]) }
    IN  Sum(counted, [ k \in counted |-> ScoreOf(g.Assignments[k]) ])

StatedPossible(g) ==
    LET counted == { k \in 1..Len(g.Assignments) : StatedCounted(g.Assignments[k]) }
    IN  Sum(counted, [ k \in counted |-> Val(g.Assignments[k].PointsPossible) ])

(* the overall percentage recomputed from the totals with `morePoints` added
   to the points earned and `morePossible` to the points possible of category
   g0: the weighted average of the percentages of the categories that have
   points possible in a weighted course, the percentage of the flat totals
   in an unweighted one; 0 when there is nothing to average *)
StatedOverall(g0, morePoints, morePossible) ==
    LET pts(g) == StatedPoints(g) + IF g = g0 THEN morePoints ELSE 0
        poss(g) == StatedPossible(g) + IF g = g0 THEN morePossible ELSE 0
        live == { g \in InGroups : poss(g) > 0 }
        weights == Sum(live, [ g \in live |-> g.GroupWeight ])
        flatPts == Sum(InGroups, [ g \in InGroups |-> pts(g) ])
        flatPoss == Sum(InGroups, [ g \in InGroups |-> poss(g) ])
    IN  IF StatedWeighted
        THEN IF weights = 0 THEN Zero
             ELSE RSum(live, [ g \in live |->
                          Rat(pts(g) * 100 * g.GroupWeight, poss(g) * weights) ])
        ELSE IF flatPoss > 0 THEN Rat(flatPts * 100, flatPoss) ELSE Zero

(* C12: an assignment counted with a score of exactly 0 has loss = 0 and
   gain = (the overall percentage recomputed with its points possible added
   to the points earned, the points possible unchanged) minus (the overall
   percentage recomputed from the current totals). *)
C12_GradedZeroImpact ==
    pc = "done" =>
        \A m \in Members :
            (StatedCounted(m) /\ ScoreOf(m) = 0) =>
                /\ m.ID \in DOMAIN impacts
                /\ impacts[m.ID].Loss = Zero
                /\ impacts[m.ID].Gain =
                       RSub(StatedOverall(GroupOf(m), Val(m.PointsPossible), 0),
                            StatedOverall(GroupOf(m), 0, 0))

(* a weighted course where a member graded zero has a gain above zero beside
   another graded category *)
C12_Witness ==
    /\ pc = "done"
    /\ StatedWeighted
    /\ \E m \in Members :
          /\ StatedCounted(m) /\ ScoreOf(m) = 0
          /\ GroupOf(m).GroupWeight > 0
          /\ impacts[m.ID].Gain[1] > 0
          /\ \E g \in InGroups \ {GroupOf(m)} : g.GroupWeight > 0 /\ StatedPoints(g) > 0

(* an unweighted course where a member graded zero has a gain above zero *)
C12_WitnessUnweighted ==
    /\ pc = "done"
    /\ ~StatedWeighted
    /\ \E m \in Members :
          /\ StatedCounted(m) /\ ScoreOf(m) = 0
          /\ impacts[m.ID].Gain[1] > 0

(* C13 as stated: every impact has gain >= 0 and loss >= 0, for every
   combination of category states, scores and points possible. *)
C13_ImpactNeverNegative ==
    pc = "done" =>
        \A id \in DOMAIN impacts : impacts[id].Gain[1] >= 0 /\ impacts[id].Loss[1] >= 0

(* every counted score lies between 0 and the points possible of its
   assignment *)
ScoresWithinPossible ==
    \A m \in Members :
        StatedCounted(m) => (0 <= ScoreOf(m) /\ ScoreOf(m) <= Val(m.PointsPossible))

(* C13: every impact has gain >= 0 and loss >= 0 when every counted score
   lies between 0 and the points possible of its assignment, empty
   categories included. *)
C13_ImpactNotNegativeWithinPossible ==
    (pc = "done" /\ ScoresWithinPossible) =>
        \A id \in DOMAIN impacts : impacts[id].Gain[1] >= 0 /\ impacts[id].Loss[1] >= 0

(* scores within the points possible, an empty category beside a graded one,
   and an impact with a gain and a loss above zero *)
C13_Witness ==
    /\ pc = "done"
    /\ ScoresWithinPossible
    /\ \E g \in InGroups : StatedPossible(g) = 0
    /\ \E g \in InGroups : StatedPossible(g) > 0
    /\ \E id \in DOMAIN impacts : impacts[id].Gain[1] > 0 /\ impacts[id].Loss[1] > 0

(* The scenario of C14: a weighted course, category A of weight 40 holding
   190 of 200 points, category B of weight 60 empty, the current overall 95,
   and an ungraded assignment of 50 points in category A. *)
C14_Scenario(m) ==
    /\ pc = "done"
    /\ m \in Members
    /\ GroupOf(m).GroupWeight = 40
    /\ StatedPoints(GroupOf(m)) = Points(190)
    /\ StatedPossible(GroupOf(m)) = Points(200)
    /\ \A g \in InGroups \ {GroupOf(m)} : g.GroupWeight = 60 /\ StatedPossible(g) = 0
    /\ StatedOverall(GroupOf(m), 0, 0) = <<95, 1>>
    /\ m.PointsPossible = Some(Points(50))
    /\ SubmissionOf(m) = None
    /\ m.ID \in DOMAIN impacts

(* |x - cents/100| <= 1/100 *)
About(x, cents) == (cents - 1) * x[2] <= 100 * x[1] /\ 100 * x[1] <= (cents + 1) * x[2]

(* C14 as stated: in the scenario the assignment gets gain of about 1.67
   (best case 96.67%) and loss of about 19.0 (worst case 76.0%). *)
C14_ScenarioGainOneAndTwoThirds ==
    \A m \in Members :
        C14_Scenario(m) =>
            About(impacts[m.ID].Gain, 167) /\ About(impacts[m.ID].Loss, 1900)

(* C14: in the scenario the assignment gets gain = 1.0 (best case
   240/250 = 96.0%) and loss = 19.0 (worst case 190/250 = 76.0%). *)
C14_ScenarioGainOne ==
    \A m \in Members :
        C14_Scenario(m) =>
            /\ impacts[m.ID].Gain = <<1, 1>>
            /\ impacts[m.ID].Loss = <<19, 1>>
            /\ StatedOverall(GroupOf(m), Points(50), Points(50)) = <<96, 1>>
            /\ StatedOverall(GroupOf(m), 0, Points(50)) = <<76, 1>>

C14_Witness == \E m \in Members : C14_Scenario(m)

-----------------------------------------------------------------------------
(* Vocabulary of the properties of Generate *)

(* the names of the reports on standard output, in order *)
RECURSIVE ReportsIn(_)
ReportsIn(out) ==
    IF out = <<>> THEN <<>>
    ELSE (IF Head(out)[1] = "report" THEN <<Head(out)[2]>> ELSE <<>>) \o ReportsIn(Tail(out))

(* the display names of the observed students whose courses the data source
   returned, in order *)
RECURSIVE NamesOfServed(_)
NamesOfServed(i) ==
    IF i = 0 THEN <<>>
    ELSE NamesOfServed(i - 1)
            \o (IF IsNil(observed.Courses[i]) THEN <<>>
                ELSE <<displayName(Val(observed.Observees)[i])>>)

(* C15: if the data source fails to return the courses of one student, only
   that student's report is skipped and the reports of all other observed
   students are still generated. *)
C15_OtherStudentsStillReported ==
    (genPc = "exited" /\ ~IsNil(observed.Observees)) =>
        ReportsIn(stdout) = NamesOfServed(Len(Val(observed.Observees)))

-----------------------------------------------------------------------------
(* Vocabulary of the properties of the course fetches *)

Joined == pc \notin {"idle", "fetch", "impacts"} /\ DOMAIN client # {}

(* fetching the assignments or the submissions of course c failed *)
CourseFailed(c) == IsNil(client[c].Assignments) \/ IsNil(client[c].Submissions)

(* the course name the report shows *)
ShownName(c) == IF CourseOf(c).Name = "" THEN "Unknown Course" ELSE CourseOf(c).Name

MergedOf(c) == SelectSeq(assignments, LAMBDA a : a.CourseName = ShownName(c))

WarningsOf(c) ==
    { i \in 1..Len(stderr) : stderr[i][1] = "warning" /\ stderr[i][2][1] = CourseOf(c).Name }

DueDated(c) == SelectSeq(SliceOf(client[c].Assignments), LAMBDA a : a.DueAt # None)

(* C16: a course whose assignments or submissions fetch fails contributes no
   enriched assignment and exactly one warning naming it; every other course
   completes and has one enriched assignment per due-dated assignment merged
   into the student's list, and no warning. *)
C16_FailedCourseWarnedOthersMerged ==
    Joined =>
        \A c \in DOMAIN client :
            /\ taskPc[c] = "done"
            /\ IF CourseFailed(c)
               THEN MergedOf(c) = <<>> /\ Cardinality(WarningsOf(c)) = 1
               ELSE /\ WarningsOf(c) = {}
                    /\ Len(MergedOf(c)) = Len(DueDated(c))
                    /\ \A i \in 1..Len(DueDated(c)) :
                          MergedOf(c)[i].Name = DueDated(c)[i].Name

(* the run is over, one course failed on its submissions and another one has
   its assignments in the merged list *)
C16_Witness ==
    /\ pc = "done"
    /\ \E c \in DOMAIN client :
          ~IsNil(client[c].Assignments) /\ IsNil(client[c].Submissions)
    /\ \E c \in DOMAIN client : ~CourseFailed(c) /\ MergedOf(c) # <<>>

(* C17: if fetching a course's assignment groups fails while its assignments
   and submissions succeed, the course fetch returns no error and one
   EnrichedAssignment per due-dated assignment, each with impact absent and
   with no category name. *)
C17_GroupsFailureDegrades ==
    \A c \in DOMAIN client :
        (/\ taskPc[c] # "fetch"
         /\ ~CourseFailed(c)
         /\ IsNil(client[c].AssignmentGroups)) =>
            /\ courseResult[c].err = None
            /\ Len(courseResult[c].result) = Len(DueDated(c))
            /\ \A i \in 1..Len(DueDated(c)) :
                  /\ courseResult[c].result[i].Name = DueDated(c)[i].Name
                  /\ courseResult[c].result[i].Impact = None
                  /\ courseResult[c].result[i].CategoryName = ""

(* one course fetched without its groups and with a due-dated assignment,
   and one fetched with them whose assignments carry an impact and a
   category name *)
C17_Witness ==
    /\ \E c \in DOMAIN client :
          /\ taskPc[c] # "fetch"
          /\ ~CourseFailed(c)
          /\ IsNil(client[c].AssignmentGroups)
          /\ courseResult[c].result # <<>>
    /\ \E c \in DOMAIN client :
          /\ taskPc[c] # "fetch"
          /\ \E i \in 1..Len(courseResult[c].result) :
                /\ courseResult[c].result[i].Impact # None
                /\ courseResult[c].result[i].CategoryName # ""

(* the merged list when the course fetches complete in the order of the
   courses *)
RECURSIVE MergedInOrder(_)
MergedInOrder(c) ==
    IF c = 0 THEN <<>> ELSE MergedInOrder(c - 1) \o courseResult[c].result

PosIn(s, a) == CHOOSE k \in 1..Len(s) : s[k].Name = a.Name

(* of the sorted orders a classifier may return for the list s, the one that
   keeps assignments of the same due timestamp in the order of s *)
KeepingOrder(s, sorted) ==
    CHOOSE t \in sorted :
        \A i, j \in 1..Len(t) :
            (i < j /\ t[i].DueAt = t[j].DueAt) => PosIn(s, t[i]) < PosIn(s, t[j])

(* C18: for a fixed set of per-course fetch results, the final order of
   every bucket is the same for every order in which the concurrent course
   fetches complete, also when several assignments share a due timestamp:
   it is the order the buckets have when the courses complete in their
   listed order. *)
C18_BucketOrderIndependent ==
    (pc = "done" /\ DOMAIN client # {}) =>
        LET s == MergedInOrder(NumCourses)
        IN  /\ missing = KeepingOrder(s, missingAssignments(s, Val(now.missing), showAll))
            /\ upcoming = KeepingOrder(s, upcomingAssignments(s, Val(now.upcoming)))
            /\ weekAhead = KeepingOrder(s, weekAheadAssignments(s, Val(now.weekAhead)))

-----------------------------------------------------------------------------
(* C19 as stated: two assignments with the same due timestamp, classified
   with the same now and the same include-older setting, fall in the same
   bucket or both in none, whatever their submission. *)
C19_SameDueSameBucket ==
    pc = "done" =>
        \A a, b \in Assignments :
            a.DueAt = b.DueAt =>
                /\ (a.Name \in Names(missing) <=> b.Name \in Names(missing))
                /\ (a.Name \in Names(upcoming) <=> b.Name \in Names(upcoming))
                /\ (a.Name \in Names(weekAhead) <=> b.Name \in Names(weekAhead))

(* C19: two assignments with the same due timestamp, classified with the same
   now and the same include-older setting, are both or neither in the
   today/tomorrow bucket and both or neither in the week-ahead bucket,
   whatever their submission; they are both or neither in the missing bucket
   when they agree on being missing and not awaiting grade. *)
C19_SameDueSameBucketButMissing ==
    pc = "done" =>
        \A a, b \in Assignments :
            a.DueAt = b.DueAt =>
                /\ (a.Name \in Names(upcoming) <=> b.Name \in Names(upcoming))
                /\ (a.Name \in Names(weekAhead) <=> b.Name \in Names(weekAhead))
                /\ ((StatedMissing(a) /\ ~StatedAwaitingGrade(a))
                        <=> (StatedMissing(b) /\ ~StatedAwaitingGrade(b)))
                    => (a.Name \in Names(missing) <=> b.Name \in Names(missing))

(* two assignments of the same due timestamp and different submissions, both
   in the today/tomorrow bucket *)
C19_Witness ==
    /\ pc = "done"
    /\ \E a, b \in Assignments :
          /\ a.DueAt = b.DueAt
          /\ a.Submission = None /\ b.Submission # None
          /\ a.Name \in Names(upcoming) /\ b.Name \in Names(upcoming)

-----------------------------------------------------------------------------
(* Vocabulary of the properties of the status *)

(* score 0 and a graded timestamp *)
StatedGradedZero(a) ==
    /\ HasSubmission(a)
    /\ Val(a.Submission).Score = Some(0)
    /\ Flagged(a, "GradedAt")

MissingEntries == { missing[i] : i \in 1..Len(missing) }

(* C20 as stated: every entry of the missing bucket carries status
   "Graded 0/N", N its points possible, or "Graded 0" when points possible is
   absent, exactly when its submission has score 0 and a graded timestamp,
   and status "Missing" otherwise. *)
C20_StatusOfMissingExactPoints ==
    \A e \in MissingEntries :
        IF StatedGradedZero(e)
        THEN IF e.PointsPossible = None THEN e.Status = <<"Graded 0">>
             ELSE /\ e.Status[1] = "Graded 0/"
                  /\ Points(e.Status[2]) = Val(e.PointsPossible)
        ELSE e.Status = <<"Missing">>

(* C20: every entry of the missing bucket carries status "Graded 0/N", N the
   whole part of its points possible, or "Graded 0" when points possible is
   absent, exactly when its submission has score 0 and a graded timestamp,
   and status "Missing" otherwise. *)
C20_StatusOfMissing ==
    \A e \in MissingEntries :
        IF StatedGradedZero(e)
        THEN IF e.PointsPossible = None THEN e.Status = <<"Graded 0">>
             ELSE /\ e.Status[1] = "Graded 0/"
                  /\ Points(e.Status[2]) <= Val(e.PointsPossible)
                  /\ Val(e.PointsPossible) < Points(e.Status[2] + 1)
        ELSE e.Status = <<"Missing">>

(* the missing bucket holds an overdue assignment without submission with
   status "Missing" and one graded 0 of 8 points with status "Graded 0/8" *)
C20_Witness ==
    /\ \E e \in MissingEntries :
          e.Submission = None /\ e.PointsPossible = Some(Points(8)) /\ e.Status = <<"Missing">>
    /\ \E e \in MissingEntries :
          /\ StatedGradedZero(e)
          /\ e.PointsPossible = Some(Points(8))
          /\ e.Status = <<"Graded 0/", 8>>

-----------------------------------------------------------------------------
(* no entry of the list is followed by one that is due before it *)
Ascending(list) ==
    \A i \in 1..(Len(list) - 1) : ~(list[i].DueAt > list[i + 1].DueAt)

(* C21: each of the three buckets is in ascending order of due timestamp:
   of every two adjacent entries the earlier one's due timestamp is not
   after the later one's. *)
C21_BucketsAscending ==
    Ascending(missing) /\ Ascending(upcoming) /\ Ascending(weekAhead)

(* the merged list names a later due time first, and a bucket holds both
   assignments with the earlier one in front *)
C21_Witness ==
    /\ pc = "done"
    /\ Len(assignments) >= 2
    /\ assignments[1].DueAt > assignments[2].DueAt
    /\ \E bucket \in {missing, upcoming, weekAhead} :
          /\ Len(bucket) >= 2
          /\ bucket[1].Name = assignments[2].Name
          /\ bucket[2].Name = assignments[1].Name

(* C22: the pending count of the today/tomorrow bucket and of the week-ahead
   bucket is the number of the bucket's entries whose submission is absent or
   has no submitted timestamp, no graded timestamp and is not excused, and is
   at most the length of the bucket *)
StatedPending(list) ==
    Cardinality({ i \in 1..Len(list) :
                    \/ ~HasSubmission(list[i])
                    \/ /\ ~Flagged(list[i], "SubmittedAt")
                       /\ ~Flagged(list[i], "GradedAt")
                       /\ ~Flagged(list[i], "Excused") })

C22_PendingCounts ==
    pc = "done" =>
        /\ upcomingPending = Some(StatedPending(upcoming))
        /\ weekAheadPending = Some(StatedPending(weekAhead))
        /\ Val(upcomingPending) <= Len(upcoming)
        /\ Val(weekAheadPending) <= Len(weekAhead)

(* a bucket of two entries of which one is pending and the other handed in *)
C22_Witness ==
    /\ pc = "done"
    /\ \/ Len(upcoming) = 2 /\ upcomingPending = Some(1)
       \/ Len(weekAhead) = 2 /\ weekAheadPending = Some(1)

(* C23: for an ungraded eligible assignment worth p points in a category of
   positive weight of a weighted course, gain = best - current and
   loss = current - worst, each the weighted average of the percentages of
   the categories with points possible, where best adds (p, p) and worst
   (0, p) to the points and points possible of the assignment's category
   and every other category keeps its points, points possible and weight *)
StatedUngraded(m) ==
    \/ SubmissionOf(m) = None
    \/ Val(SubmissionOf(m)).Score = None
    \/ /\ Val(SubmissionOf(m)).Missing
       /\ Val(SubmissionOf(m)).Score = Some(0)
       /\ ~Val(SubmissionOf(m)).GradedAt

C23_WeightedUngradedImpact ==
    (pc = "done" /\ StatedWeighted) =>
        \A m \in Members :
            (/\ HasPoints(m) /\ StatedInPeriod(m) /\ StatedUngraded(m)
             /\ GroupOf(m).GroupWeight > 0) =>
                LET p == Val(m.PointsPossible)
                    current == StatedOverall(GroupOf(m), 0, 0)
                    best == StatedOverall(GroupOf(m), p, p)
                    worst == StatedOverall(GroupOf(m), 0, p)
                IN  /\ m.ID \in DOMAIN impacts
                    /\ impacts[m.ID].Gain = RSub(best, current)
                    /\ impacts[m.ID].Loss = RSub(current, worst)

(* an ungraded member of a category that already has counted points, beside
   another category with counted points, with a gain and a loss above zero *)
C23_Witness ==
    /\ pc = "done"
    /\ StatedWeighted
    /\ \E m \in Members :
          /\ HasPoints(m) /\ StatedInPeriod(m) /\ StatedUngraded(m)
          /\ GroupOf(m).GroupWeight > 0
          /\ StatedPossible(GroupOf(m)) > 0
          /\ \E g \in InGroups \ {GroupOf(m)} : g.GroupWeight > 0 /\ StatedPossible(g) > 0
          /\ m.ID \in DOMAIN impacts
          /\ impacts[m.ID].Gain[1] > 0
          /\ impacts[m.ID].Loss[1] > 0

(* C24: in the category states, an assignment adds its score to the points
   and its points possible to the points possible of its category exactly
   when its points possible are present and not zero, it is in the grading
   period (no due date or no period counts as in the period), it has a
   recorded score, and it is not flagged missing with a score of 0 and no
   graded timestamp; every category has a state that carries its weight,
   also when nothing is added to it *)
WithoutMember(g, k) ==
    [g EXCEPT !.Assignments = SubSeq(g.Assignments, 1, k - 1)
                                \o SubSeq(g.Assignments, k + 1, Len(g.Assignments))]

C24_CategoryStateContributions ==
    pc = "done" =>
        LET in == Val(impactIn)
            states == categoryStates(in.groups, in.submissions, in.period)
        IN  /\ DOMAIN states = { g.ID : g \in InGroups }
            /\ \A g \in InGroups :
                  /\ states[g.ID].weight = g.GroupWeight
                  /\ \A k \in 1..Len(g.Assignments) :
                        LET m == g.Assignments[k]
                            rest == categoryStateOf(WithoutMember(g, k), in.submissions,
                                                    in.period)
                        IN  IF StatedCounted(m)
                            THEN /\ states[g.ID].points = rest.points + ScoreOf(m)
                                 /\ states[g.ID].possible =
                                        rest.possible + Val(m.PointsPossible)
                            ELSE /\ states[g.ID].points = rest.points
                                 /\ states[g.ID].possible = rest.possible

(* a member flagged missing with a score of 0 that nobody graded, left out,
   beside a counted member and a category of positive weight that nothing
   is added to *)
C24_Witness ==
    /\ pc = "done"
    /\ \E m \in Members :
          /\ HasPoints(m) /\ StatedInPeriod(m)
          /\ SubmissionOf(m) # None
          /\ Val(SubmissionOf(m)).Score = Some(0)
          /\ Val(SubmissionOf(m)).Missing
          /\ ~Val(SubmissionOf(m)).GradedAt
    /\ \E m \in Members : StatedCounted(m) /\ ScoreOf(m) > 0
    /\ \E g \in InGroups :
          /\ g.GroupWeight > 0
          /\ categoryStates(Val(impactIn).groups, Val(impactIn).submissions,
                            Val(impactIn).period)[g.ID]
                = [points |-> 0, possible |-> 0, weight |-> g.GroupWeight]

(* C25: under every interleaving of the course goroutines,
   fetchAllAssignments returns only after every course fetch has completed
   or failed; every write to the shared assignment list, error list and
   progress counter is made by the goroutine that holds the mutex, and no
   two goroutines are in the critical section together; the returned list
   holds the enriched assignments of every successful course exactly once;
   and the progress counter is the number of courses at the join *)
InCriticalSection == { c \in DOMAIN taskPc : taskPc[c] = "locked" }

C25_ReturnsAfterAll ==
    Joined =>
        /\ \A c \in DOMAIN client : taskPc[c] = "done"
        /\ completed = Cardinality(DOMAIN client)
        /\ Len(assignments) = Sum({ c \in DOMAIN client : courseResult[c].err = None },
                                  [ c \in DOMAIN client |-> Len(courseResult[c].result) ])
        /\ \A c \in DOMAIN client :
              courseResult[c].err = None => MergedOf(c) = courseResult[c].result

C25_WritesUnderMutex ==
    (assignments' # assignments \/ errors' # errors \/ completed' # completed) =>
        /\ mu # 0
        /\ InCriticalSection = {mu}
        /\ taskPc'[mu] = "done"
        /\ mu' = 0
        /\ completed' = completed + 1

C25_MergeUnderMutex ==
    /\ [](Cardinality(InCriticalSection) <= 1)
    /\ [](InCriticalSection # {} => InCriticalSection = {mu})
    /\ []C25_ReturnsAfterAll
    /\ [][C25_WritesUnderMutex]_vars

(* the join after a course that failed merged before a course with
   assignments did, though it was started later *)
C25_Witness ==
    /\ Joined
    /\ completed = NumCourses
    /\ \E c, d \in DOMAIN client :
          /\ c < d
          /\ courseResult[c].err = None /\ courseResult[c].result # <<>>
          /\ MergedOf(c) = courseResult[c].result
          /\ assignments # MergedInOrder(NumCourses)
          /\ courseResult[d].result # <<>>

(* a degradable failure occurred in the fetch of course c: after its
   assignments and submissions, the fetch of its assignment groups failed,
   or that of its grading periods, or that of its enrollments *)
DegradableFailure(c) ==
    /\ ~CourseFailed(c)
    /\ \/ IsNil(client[c].AssignmentGroups)
       \/ /\ ~IsNil(NilIfEmpty(client[c].AssignmentGroups))
          /\ \/ IsNil(client[c].GradingPeriods)
             \/ /\ ~IsNil(currentGradingPeriod(SliceOf(client[c].GradingPeriods), runStart))
                /\ IsNil(client[c].Enrollments)

(* C26: every degradable failure of a course (its assignment-group,
   grading-period or enrollment fetch failing) is reported as a warning that
   names the course *)
C26_DegradableFailureWarned ==
    Joined =>
        \A c \in DOMAIN client : DegradableFailure(c) => WarningsOf(c) # {}

(* C27: fetchAllGrades puts every course that has a grade for its current
   grading period in exactly one grade group, the group of the title of that
   period, and no two groups have the same title; the groups come in
   ascending order of the start date of their period, groups without a start
   date first; the grades of a group are in the order of the course names *)
GradeGroups == Val(grouped)

GradePlaces(c) ==
    { <<g, k>> \in (1..Len(GradeGroups)) \X (1..NumCourses) :
        /\ k <= Len(GradeGroups[g].grades)
        /\ GradeGroups[g].grades[k].CourseName = ShownName(c) }

StartsNotAfter(p, q) ==
    \/ p.StartDate = None
    \/ q.StartDate # None /\ Val(p.StartDate) <= Val(q.StartDate)

C27_GradeGroups ==
    pc = "done" =>
        /\ \A c \in DOMAIN client :
              IF courseResult[c].grade = None
              THEN GradePlaces(c) = {}
              ELSE /\ Cardinality(GradePlaces(c)) = 1
                   /\ \A place \in GradePlaces(c) :
                         /\ GradeGroups[place[1]].period.Title
                                = Val(courseResult[c].period).Title
                         /\ GradeGroups[place[1]].grades[place[2]]
                                = Val(courseResult[c].grade)
        /\ \A g, h \in 1..Len(GradeGroups) :
              g < h =>
                  /\ GradeGroups[g].period.Title # GradeGroups[h].period.Title
                  /\ StartsNotAfter(GradeGroups[g].period, GradeGroups[h].period)
        /\ \A g \in 1..Len(GradeGroups) :
              /\ GradeGroups[g].grades # <<>>
              /\ \A i, j \in 1..Len(GradeGroups[g].grades) :
                    i < j => ~StringLess(GradeGroups[g].grades[j].CourseName,
                                         GradeGroups[g].grades[i].CourseName)

(* two courses whose current periods have the same title and different start
   dates end in one group, the grade that was appended second standing
   first *)
C27_Witness ==
    /\ pc = "done"
    /\ Len(results) = 2
    /\ Val(results[1].period).StartDate # Val(results[2].period).StartDate
    /\ Len(GradeGroups) = 1
    /\ GradeGroups[1].grades = << Val(results[2].grade), Val(results[1].grade) >>

(* two courses whose current periods differ in their title make two groups,
   the group of the result that was appended second standing first *)
C27_WitnessTwoGroups ==
    /\ pc = "done"
    /\ Len(results) = 2
    /\ Len(GradeGroups) = 2
    /\ GradeGroups[1].grades = << Val(results[2].grade) >>
    /\ GradeGroups[2].grades = << Val(results[1].grade) >>

(* C28: the impacts do not depend on the current overall score the
   enrollment reports: for the same groups, submissions, grading period and
   weighted flag, calculateAssignmentImpacts returns the same gain and loss
   for every value of its currentOverall argument *)
OverallValues == {0, 50, 95, 100}

C28_ImpactIgnoresReportedOverall ==
    pc = "done" =>
        \A other \in OverallValues :
            calculateAssignmentImpacts(Val(impactIn).groups, Val(impactIn).submissions,
                                       other, Val(impactIn).weighted,
                                       Val(impactIn).period) = impacts

(* a call with a reported score of 95 where the score recomputed from the
   category states is not 95 and an impact is not zero; such a call in an
   unweighted course *)
C28_Witness ==
    /\ pc = "done"
    /\ Val(impactIn).currentOverall = 95
    /\ Val(impactIn).weighted
    /\ \E m \in Members :
          /\ m.ID \in DOMAIN impacts
          /\ ~IsZeroImpact(impacts[m.ID])
          /\ StatedOverall(GroupOf(m), 0, 0) # <<95, 1>>

C28_WitnessUnweighted ==
    /\ pc = "done"
    /\ Val(impactIn).currentOverall = 95
    /\ ~Val(impactIn).weighted
    /\ \E m \in Members :
          /\ m.ID \in DOMAIN impacts
          /\ ~IsZeroImpact(impacts[m.ID])
          /\ StatedOverall(GroupOf(m), 0, 0) # <<95, 1>>

(* the row of the category of group g in the grade table *)
CategoryRow(g) ==
    LET rows == Val(categories)
    IN  rows[CHOOSE i \in 1..Len(rows) : rows[i].Name = g.Name]

(* C29: for a weighted course, the points and the points possible of a
   category of positive weight in the grade table (buildCategoryGrades) are
   the points and the points possible of the category state that the impact
   calculation builds for the category from the same groups, submissions and
   grading period *)
C29_GradeTableMatchesCategoryState ==
    (pc = "done" /\ ~IsNil(categories)) =>
        LET in == Val(impactIn)
            states == categoryStates(in.groups, in.submissions, in.period)
        IN  \A g \in InGroups :
                g.GroupWeight > 0 =>
                    /\ \E i \in 1..Len(Val(categories)) : Val(categories)[i].Name = g.Name
                    /\ CategoryRow(g).Points = states[g.ID].points
                    /\ CategoryRow(g).PointsPossible = states[g.ID].possible

(* C30: whatever the weekday of today, nextSchoolDay is not a Saturday or a
   Sunday and no day of the week-ahead window is one; so an assignment whose
   local due date is a Saturday or a Sunday other than today is neither in
   the today/tomorrow bucket nor in the week-ahead bucket *)
Weekend == {Saturday, Sunday}

C30_NoWeekendDays ==
    /\ \A p \in {"upcoming", "weekAhead"} :
          Ran(p) => Weekday(nextSchoolDay(truncateToDay(Val(now[p])))) \notin Weekend
    /\ Ran("weekAhead") =>
          LET today == truncateToDay(Val(now.weekAhead))
              weekStart == AddDate(nextSchoolDay(today), 1)
              weekEnd == endOfSchoolWeek(today)
          IN  \A t \in weekStart..weekEnd : Weekday(t) \notin Weekend
    /\ \A a \in Assignments :
          LocalDate(a) % 7 \in Weekend =>
              /\ (Ran("upcoming") /\ LocalDate(a) # Today("upcoming"))
                    => a.Name \notin Names(upcoming)
              /\ (Ran("weekAhead") /\ LocalDate(a) # Today("weekAhead"))
                    => a.Name \notin Names(weekAhead)

(* on a Friday, an assignment without a submission that is due on the
   Saturday or the Sunday is left out of both buckets *)
C30_Witness ==
    /\ pc = "done"
    /\ Today("upcoming") % 7 = Friday
    /\ Today("weekAhead") % 7 = Friday
    /\ \E a \in Assignments :
          /\ LocalDate(a) \in {Today("upcoming") + 1, Today("upcoming") + 2}
          /\ ~HasSubmission(a)
          /\ a.Name \notin Names(upcoming) \cup Names(weekAhead)

====
